---- MODULE Spec2Model ----
(***************************************************************************)
(* Virtual-environment lifecycle manager of the script runner (src/r2.py;  *)
(* src/r3.py carries the same DependencyManager code).                     *)
(*                                                                         *)
(* The file system is shared state: one record per environment root path.  *)
(* A tool process is a position (pc) in run_script / setup_venv and the    *)
(* locals of the call.  The variables did, pre, last, runs are history     *)
(* variables that record what a call has done, for stating properties.     *)
(***************************************************************************)
EXTENDS Integers, Sequences, FiniteSets, TLC

\* ---------------------------------------------------------------- bounds
MaxClock == 2      \* clock seconds observed: 1..MaxClock
MaxRuns == 2       \* consecutive setup_venv calls of the sequential specification
NumInodes == 4     \* inode numbers available for .lock files
MaxRetries == 2    \* confirmed repairs of one invocation that the model follows
MaxLines == 2      \* lines of requirements.txt
MaxCalls == 2      \* consecutive generate_requirements calls on one script
MaxBytes == 2      \* bytes of a project file
MaxPrints == 2     \* get_project_fingerprint calls on one project directory

Procs == {1, 2}
Free == <<"free", 0>>
Holder(p) == <<"proc", p>>
Ext == <<"ext", 0>>    \* a foreign process (not this tool) that may hold the sentinel lock
FPs == {"F1", "F2"}   \* hex digests returned by get_project_fingerprint

\* ---------------------------------------------------------------- paths
\* Path(venv_name): the base name and the timestamps appended to it
Requested == [base |-> "venv", suffix |-> << >>]

\* the suffix is left out
FallbackNameUnsuffixed(n, t) == n

\* f"{venv_name}_{int(time.time())}"
FallbackName(n, t) == [base |-> n.base, suffix |-> Append(n.suffix, t)]

Names == {Requested} \cup {FallbackName(Requested, t) : t \in 1..MaxClock}

\* ---------------------------------------------------------------- texts
\* contents of .project_fingerprint: a body and possibly a trailing newline
NoStamp == [present |-> FALSE, body |-> "", nl |-> FALSE]

\* fingerprint_file.write_text(fingerprint)
WriteText(f) == [present |-> TRUE, body |-> f, nl |-> FALSE]

\* str.strip()
Strip(t) == t.body

\* ---------------------------------------------------------------- file system
AbsentDir ==
    [kind |-> "absent", owner |-> "me", writable |-> TRUE, rm |-> "ok",
     stamp |-> NoStamp, exe |-> "ok", lock |-> 0, extra |-> FALSE]

\* what "python -m venv <name> --copies" leaves at a path that did not exist
FreshDir == [AbsentDir EXCEPT !.kind = "dir"]

\* a directory left behind by a creation command that failed half way
PartialDir == [FreshDir EXCEPT !.exe = "nopython"]

RmKinds == {"ok", "permfix", "permblocked", "oserr"}
ExeKinds == {"ok", "nopython", "nopip", "nonzero", "timeout", "notexec"}
Stamps == {NoStamp, WriteText("F1"), [present |-> TRUE, body |-> "F1", nl |-> TRUE],
           WriteText("F2")}

\* the directories a run may find at the requested path
InitDirs ==
    {AbsentDir, [AbsentDir EXCEPT !.kind = "file"],
     [AbsentDir EXCEPT !.kind = "file", !.owner = "other"]}
    \cup
    {d \in [kind : {"dir"}, owner : {"me", "other"}, writable : BOOLEAN, rm : RmKinds,
            stamp : Stamps, exe : ExeKinds, lock : {0, 1}, extra : BOOLEAN] :
        \* deleting a non-empty tree needs write permission on its root
        d.rm = "ok" => d.writable}

VARIABLES
    fs,       \* [Names -> directory record]
    flk,      \* [inode -> holder of the flock on it: Free, Holder(p), Ext]
    clock,    \* int(time.time())
    pc,       \* [Procs -> position]
    fp,       \* [Procs -> current_fingerprint of the call]
    target,   \* [Procs -> venv_name of _create_new_venv]
    fd,       \* [Procs -> inode of the open .lock descriptor, 0 when none]
    ret,      \* [Procs -> result of setup_venv]
    did,      \* [Procs -> what the current call has done]
    pre,      \* [Procs -> the file system when the call started]
    last,     \* the previous completed call: its fingerprint and result
    runs,     \* calls started so far
    script,   \* [Procs -> what ScriptAnalyzer says of the selected script]
    stderr,   \* [Procs -> standard error of the failed run: captured, missing modules]
    retries,  \* [Procs -> retried runs of the invocation]
    fixes,    \* [Procs -> _fix_missing_dependencies calls of the invocation]
    status,   \* [Procs -> exit status of the tool process, -1 while it runs]
    manifest, \* requirements.txt: whether it exists, and its lines
    idx,      \* [Procs -> the line the per-package loop is at, 0 outside the loop]
    failed,   \* [Procs -> the lines whose individual install failed]
    source,   \* the selected script: its imports, and whether a line imports streamlit
    version,  \* the file whose generate_requirements is run: "r2" or "r3"
    requirements_txt, \* requirements.txt: whether it exists, and its text
    outputs,  \* the generate_requirements calls so far: answer, result, text left
    repairs,  \* the installs of one _fix_missing_dependencies call: module, package
    project,  \* the project directory: its *.py files, requirements.txt, the last edit
    prints,   \* the get_project_fingerprint calls so far: project, listing, digest
    text,     \* the text of the script that extract_imports reads
    scan      \* what became of the has_external_dependencies call on it

store == <<fs, flk, clock, fp, target, fd, ret, last, runs>>
super == <<script, stderr, retries, fixes, status, manifest, idx, failed>>
resolver == <<source, version, requirements_txt, outputs, repairs>>
analysis == <<project, prints, text, scan>>
vars == <<fs, flk, clock, pc, fp, target, fd, ret, did, pre, last, runs,
          script, stderr, retries, fixes, status, manifest, idx, failed,
          source, version, requirements_txt, outputs, repairs,
          project, prints, text, scan>>

\* ---------------------------------------------------------------- results
Pending == [tag |-> "pending", name |-> Requested]
NoEnv == [tag |-> "none", name |-> Requested]
Raised == [tag |-> "raised", name |-> Requested]
Env(n) == [tag |-> "path", name |-> n]

Inodes == 1..NumInodes

UsedInodes ==
    {fs[n].lock : n \in Names} \cup {fd[p] : p \in Procs}
    \cup {i \in Inodes : flk[i] # Free}

FreshInode == CHOOSE i \in Inodes : i \notin UsedInodes

Goto(p, l) == pc' = [pc EXCEPT ![p] = l]
Did(p, evs) == did' = [did EXCEPT ![p] = @ \cup evs]

\* ---------------------------------------------------------------- setup_venv
\* run_script: project_fingerprint = ...; venv_path = self.deps.setup_venv("venv", fp)
CallSetup(p) ==
    /\ \E f \in FPs : fp' = [fp EXCEPT ![p] = f]
    /\ runs' = runs + 1
    /\ last' = [fp |-> fp[p], ret |-> ret[p]]
    /\ ret' = [ret EXCEPT ![p] = Pending]
    /\ did' = [did EXCEPT ![p] = {}]
    /\ pre' = [pre EXCEPT ![p] = fs]
    /\ target' = [target EXCEPT ![p] = Requested]
    /\ Goto(p, "exists")
    /\ UNCHANGED <<fs, flk, clock, fd>>

\* the next call of setup_venv on the directory, the one before it having ended
Invoke(p) ==
    /\ pc[p] \in {"idle", "returned", "crashed"}
    /\ runs < MaxRuns
    /\ CallSetup(p)
    /\ UNCHANGED <<super, resolver, analysis>>

\* Path.exists(): true for a directory and for any other kind of file
PathExists(d) == d.kind # "absent"

\* the lock check is entered whether or not the path exists
ExistsCheckSkipped(p) ==
    /\ pc[p] = "exists"
    /\ Goto(p, "lock_open")
    /\ Did(p, {"exists"})
    /\ UNCHANGED <<fs, flk, clock, fp, target, fd, ret, pre, last, runs>>
    /\ UNCHANGED <<super, resolver, analysis>>

\* setup_venv: if venv_path.exists()
ExistsCheck(p) ==
    /\ pc[p] = "exists"
    /\ IF PathExists(fs[Requested])
       THEN Goto(p, "lock_open") /\ Did(p, {"exists"})
       ELSE Goto(p, "create") /\ Did(p, {"absent"})
    /\ UNCHANGED <<fs, flk, clock, fp, target, fd, ret, pre, last, runs>>
    /\ UNCHANGED <<super, resolver, analysis>>

\* os.open(lock_file, O_CREAT | O_RDWR) succeeds
CanOpenLock(d) == d.kind = "dir" /\ (d.lock # 0 \/ d.writable)

\* _is_venv_locked: os.open
LockOpen(p) ==
    /\ pc[p] = "lock_open"
    /\ LET d == fs[Requested] IN
       IF CanOpenLock(d)
       THEN LET i == IF d.lock # 0 THEN d.lock ELSE FreshInode IN
            /\ fs' = [fs EXCEPT ![Requested].lock = i]
            /\ fd' = [fd EXCEPT ![p] = i]
            /\ Goto(p, "lock_flock")
            /\ Did(p, {"lock_check"})
       ELSE /\ Goto(p, "unlock_exists")
            /\ Did(p, {"lock_check", "locked"})
            /\ UNCHANGED <<fs, fd>>
    /\ UNCHANGED <<flk, clock, fp, target, ret, pre, last, runs>>
    /\ UNCHANGED <<super, resolver, analysis>>

\* the flock is requested without LOCK_NB: the call waits for the holder
LockFlockBlocking(p) ==
    /\ pc[p] = "lock_flock"
    /\ flk[fd[p]] = Free
    /\ flk' = [flk EXCEPT ![fd[p]] = Holder(p)]
    /\ Goto(p, "lock_unflock")
    /\ UNCHANGED <<fs, clock, fp, target, fd, ret, did, pre, last, runs>>
    /\ UNCHANGED <<super, resolver, analysis>>

\* _is_venv_locked: fcntl.flock(fd, LOCK_EX | LOCK_NB)
LockFlock(p) ==
    /\ pc[p] = "lock_flock"
    /\ IF flk[fd[p]] = Free
       THEN /\ flk' = [flk EXCEPT ![fd[p]] = Holder(p)]
            /\ Goto(p, "lock_unflock")
            /\ UNCHANGED <<fd, did>>
       ELSE /\ fd' = [fd EXCEPT ![p] = 0]
            /\ Goto(p, "unlock_exists")
            /\ Did(p, {"locked", "flock_failed"})
            /\ UNCHANGED flk
    /\ UNCHANGED <<fs, clock, fp, target, ret, pre, last, runs>>
    /\ UNCHANGED <<super, resolver, analysis>>

\* _is_venv_locked: fcntl.flock(fd, LOCK_UN); os.close(fd)
LockUnflock(p) ==
    /\ pc[p] = "lock_unflock"
    /\ flk' = [flk EXCEPT ![fd[p]] = Free]
    /\ fd' = [fd EXCEPT ![p] = 0]
    /\ Goto(p, "lock_unlink")
    /\ UNCHANGED <<fs, clock, fp, target, ret, did, pre, last, runs>>
    /\ UNCHANGED <<super, resolver, analysis>>

\* os.unlink(lock_file) succeeds
CanUnlinkLock(d) == d.kind = "dir" /\ d.lock # 0 /\ d.writable

\* the sentinel is left in place after the lock was released
LockUnlinkSkipped(p) ==
    /\ pc[p] = "lock_unlink"
    /\ Goto(p, "owner")
    /\ UNCHANGED <<fs, flk, clock, fp, target, fd, ret, did, pre, last, runs>>
    /\ UNCHANGED <<super, resolver, analysis>>

\* _is_venv_locked: os.unlink; a failure reaches the outer handler: locked
LockUnlink(p) ==
    /\ pc[p] = "lock_unlink"
    /\ IF CanUnlinkLock(fs[Requested])
       THEN /\ fs' = [fs EXCEPT ![Requested].lock = 0]
            /\ Goto(p, "owner")
            /\ UNCHANGED did
       ELSE /\ Goto(p, "unlock_exists")
            /\ Did(p, {"locked"})
            /\ UNCHANGED fs
    /\ UNCHANGED <<flk, clock, fp, target, fd, ret, pre, last, runs>>
    /\ UNCHANGED <<super, resolver, analysis>>

\* _force_unlock_venv: if lock_file.exists()
UnlockExists(p) ==
    /\ pc[p] = "unlock_exists"
    /\ IF fs[Requested].kind = "dir" /\ fs[Requested].lock # 0
       THEN Goto(p, "unlock_unlink")
       ELSE Goto(p, "unlock_glob")
    /\ UNCHANGED <<fs, flk, clock, fp, target, fd, ret, did, pre, last, runs>>
    /\ UNCHANGED <<super, resolver, analysis>>

\* _force_unlock_venv: os.unlink(lock_file); an exception returns False and
\* setup_venv creates under the timestamp-suffixed name
UnlockUnlink(p) ==
    /\ pc[p] = "unlock_unlink"
    /\ IF CanUnlinkLock(fs[Requested])
       THEN /\ fs' = [fs EXCEPT ![Requested].lock = 0]
            /\ Goto(p, "unlock_glob")
            /\ UNCHANGED <<target, did>>
       ELSE /\ target' = [target EXCEPT ![p] = FallbackName(Requested, clock)]
            /\ Goto(p, "create")
            /\ Did(p, {"unlock_failed", "fallback"})
            /\ UNCHANGED fs
    /\ UNCHANGED <<flk, clock, fp, fd, ret, pre, last, runs>>
    /\ UNCHANGED <<super, resolver, analysis>>

\* _force_unlock_venv: the *.lock / *.pid loop, every failure swallowed
GlobUnlink(d) ==
    IF d.kind = "dir" /\ d.writable THEN [d EXCEPT !.lock = 0, !.extra = FALSE] ELSE d

\* the function ends without "return True": the caller sees a failed repair
UnlockGlobReturnsNone(p) ==
    /\ pc[p] = "unlock_glob"
    /\ fs' = [fs EXCEPT ![Requested] = GlobUnlink(@)]
    /\ target' = [target EXCEPT ![p] = FallbackName(Requested, clock)]
    /\ Goto(p, "create")
    /\ Did(p, {"unlock_ok", "fallback"})
    /\ UNCHANGED <<flk, clock, fp, fd, ret, pre, last, runs>>
    /\ UNCHANGED <<super, resolver, analysis>>

\* _force_unlock_venv: the glob loop and return True
UnlockGlob(p) ==
    /\ pc[p] = "unlock_glob"
    /\ fs' = [fs EXCEPT ![Requested] = GlobUnlink(@)]
    /\ Goto(p, "owner")
    /\ Did(p, {"unlock_ok"})
    /\ UNCHANGED <<flk, clock, fp, target, fd, ret, pre, last, runs>>
    /\ UNCHANGED <<super, resolver, analysis>>

\* the owner is never looked at
OwnedByAnotherUserNever(d) == FALSE

\* _is_venv_owned_by_another_user
OwnedByAnotherUser(d) == IF ~PathExists(d) THEN FALSE ELSE d.owner # "me"

\* setup_venv: if self._is_venv_owned_by_another_user(venv_path)
OwnerCheck(p) ==
    /\ pc[p] = "owner"
    /\ IF OwnedByAnotherUser(fs[Requested])
       THEN Goto(p, "rm_foreign") /\ Did(p, {"owner_check", "foreign"})
       ELSE Goto(p, "valid") /\ Did(p, {"owner_check"})
    /\ UNCHANGED <<fs, flk, clock, fp, target, fd, ret, pre, last, runs>>
    /\ UNCHANGED <<super, resolver, analysis>>

\* _force_remove_venv: True when the path is gone afterwards
RemoveSucceeds(d) ==
    \/ ~PathExists(d)
    \/ d.kind = "dir" /\ d.rm \in {"ok", "permfix"}

\* what a failed shutil.rmtree may leave: the tree as it was, or part of it
AfterFailedRemove(d) ==
    IF d.kind = "dir" THEN {d, [d EXCEPT !.stamp = NoStamp, !.exe = "nopython"]} ELSE {d}

\* the permission fix and the second rmtree follow any error of the first
RemoveEventsRetryAlways(d) ==
    IF ~PathExists(d) THEN {}
    ELSE IF d.kind = "dir" /\ d.rm = "ok"
         THEN {"rmtree"}
         ELSE {"rmtree", "chmod", "rmtree_retry"}

\* events of one _force_remove_venv call: the first shutil.rmtree and, after a
\* PermissionError, the os.chmod walk and the second shutil.rmtree
RemoveEvents(d) ==
    IF ~PathExists(d) THEN {}
    ELSE IF d.kind = "dir" /\ d.rm \in {"permfix", "permblocked"}
         THEN {"rmtree", "chmod", "rmtree_retry"}
         ELSE {"rmtree"}

\* the environment is created under the timestamp-suffixed name after a
\* removal that succeeded as well
ForceRemoveRelocates(p, at, ok) ==
    /\ pc[p] = at
    /\ LET d == fs[Requested] IN
       IF RemoveSucceeds(d)
       THEN /\ fs' = [fs EXCEPT ![Requested] = AbsentDir]
            /\ target' = [target EXCEPT ![p] = FallbackName(Requested, clock)]
            /\ Goto(p, "create")
            /\ Did(p, RemoveEvents(d) \cup {"remove_ok"})
       ELSE /\ \E e \in AfterFailedRemove(d) : fs' = [fs EXCEPT ![Requested] = e]
            /\ target' = [target EXCEPT ![p] = FallbackName(Requested, clock)]
            /\ Goto(p, "create")
            /\ Did(p, RemoveEvents(d) \cup {"remove_failed", "fallback"})
    /\ UNCHANGED <<flk, clock, fp, fd, ret, pre, last, runs>>
    /\ UNCHANGED <<super, resolver, analysis>>

\* _force_remove_venv(venv_path) called from setup_venv at position `at`:
\* success continues at `ok`, failure creates under the timestamp-suffixed name
ForceRemove(p, at, ok) ==
    /\ pc[p] = at
    /\ LET d == fs[Requested] IN
       IF RemoveSucceeds(d)
       THEN /\ fs' = [fs EXCEPT ![Requested] = AbsentDir]
            /\ Goto(p, ok)
            /\ Did(p, RemoveEvents(d) \cup {"remove_ok"})
            /\ UNCHANGED target
       ELSE /\ \E e \in AfterFailedRemove(d) : fs' = [fs EXCEPT ![Requested] = e]
            /\ target' = [target EXCEPT ![p] = FallbackName(Requested, clock)]
            /\ Goto(p, "create")
            /\ Did(p, RemoveEvents(d) \cup {"remove_failed", "fallback"})
    /\ UNCHANGED <<flk, clock, fp, fd, ret, pre, last, runs>>
    /\ UNCHANGED <<super, resolver, analysis>>

\* setup_venv: the removal of an environment owned by another user
RemoveForeign(p) == ForceRemove(p, "rm_foreign", "valid")

\* setup_venv: the removal of an environment that is not valid
RemoveInvalid(p) == ForceRemove(p, "rm_invalid", "create")

\* _get_venv_fingerprint: the stripped stamp, or None
GetVenvFingerprint(d) ==
    IF d.kind = "dir" /\ d.stamp.present
    THEN [some |-> TRUE, val |-> Strip(d.stamp)]
    ELSE [some |-> FALSE, val |-> ""]

\* the stored fingerprint is not compared
IsVenvValidAnyFingerprint(d, f) ==
    IF d.kind # "dir" \/ d.exe \in {"nopython", "nopip"} THEN "invalid"
    ELSE IF d.exe = "ok" THEN "valid"
    ELSE IF d.exe \in {"nonzero", "timeout"} THEN "invalid"
    ELSE "raise"

\* _is_venv_valid: "valid", "invalid", or "raise" for an exception it does not catch
IsVenvValid(d, f) ==
    IF GetVenvFingerprint(d) # [some |-> TRUE, val |-> f] THEN "invalid"
    ELSE IF d.exe \in {"nopython", "nopip"} THEN "invalid"
    ELSE IF d.exe = "ok" THEN "valid"
    ELSE IF d.exe \in {"nonzero", "timeout"} THEN "invalid"
    ELSE "raise"

\* the stamp is written again when the environment is reused
ValidCheckRestamps(p) ==
    /\ pc[p] = "valid"
    /\ LET v == IsVenvValid(fs[Requested], fp[p]) IN
       CASE v = "valid" ->
              /\ ret' = [ret EXCEPT ![p] = Env(Requested)]
              /\ fs' = [fs EXCEPT ![Requested].stamp = WriteText(fp[p])]
              /\ Goto(p, "returned")
              /\ Did(p, {"valid_check", "reuse"})
         [] v = "invalid" ->
              /\ Goto(p, "rm_invalid")
              /\ Did(p, {"valid_check", "invalid"})
              /\ UNCHANGED <<ret, fs>>
         [] OTHER ->
              /\ ret' = [ret EXCEPT ![p] = Raised]
              /\ Goto(p, "crashed")
              /\ Did(p, {"valid_check", "uncaught"})
              /\ UNCHANGED fs
    /\ UNCHANGED <<flk, clock, fp, target, fd, pre, last, runs>>
    /\ UNCHANGED <<super, resolver, analysis>>

\* setup_venv: if self._is_venv_valid(venv_path, current_fingerprint)
ValidCheck(p) ==
    /\ pc[p] = "valid"
    /\ LET v == IsVenvValid(fs[Requested], fp[p]) IN
       CASE v = "valid" ->
              /\ ret' = [ret EXCEPT ![p] = Env(Requested)]
              /\ Goto(p, "returned")
              /\ Did(p, {"valid_check", "reuse"})
         [] v = "invalid" ->
              /\ Goto(p, "rm_invalid")
              /\ Did(p, {"valid_check", "invalid"})
              /\ UNCHANGED ret
         [] OTHER ->
              /\ ret' = [ret EXCEPT ![p] = Raised]
              /\ Goto(p, "crashed")
              /\ Did(p, {"valid_check", "uncaught"})
    /\ UNCHANGED <<fs, flk, clock, fp, target, fd, pre, last, runs>>
    /\ UNCHANGED <<super, resolver, analysis>>

\* the creation command can succeed at this path
CanCreate(d) == d.kind = "absent" \/ (d.kind = "dir" /\ d.writable)

\* the new environment is not stamped
CreatedUnstamped(d, f) ==
    IF d.kind = "absent" THEN FreshDir ELSE [d EXCEPT !.exe = "ok"]

\* a directory that has a stamp keeps it when the creation command ran in it
CreatedKeepsStamp(d, f) ==
    IF d.kind = "absent" THEN [FreshDir EXCEPT !.stamp = WriteText(f)]
    ELSE [d EXCEPT !.exe = "ok",
                   !.stamp = IF d.stamp.present THEN d.stamp ELSE WriteText(f)]

\* the directory after a successful creation command and the stamp
Created(d, f) ==
    IF d.kind = "absent" THEN [FreshDir EXCEPT !.stamp = WriteText(f)]
    ELSE [d EXCEPT !.exe = "ok", !.stamp = WriteText(f)]

\* a failed creation is tried again under the next timestamp-suffixed name
CreateNewVenvRetrying(p) ==
    /\ pc[p] = "create"
    /\ LET n == target[p]
           d == fs[n]
           ev == IF n = Requested THEN "create_orig" ELSE "create_fallback" IN
       \/ /\ CanCreate(d)
          /\ fs' = [fs EXCEPT ![n] = Created(d, fp[p])]
          /\ ret' = [ret EXCEPT ![p] = Env(n)]
          /\ Did(p, {"create", ev, "create_ok", "stamp"})
          /\ Goto(p, "returned")
          /\ UNCHANGED target
       \/ /\ fs' = fs
          /\ ret' = ret
          /\ Did(p, {"create", ev, "create_failed"})
          /\ IF n = Requested
             THEN /\ target' = [target EXCEPT ![p] = FallbackName(Requested, clock)]
                  /\ Goto(p, "create")
             ELSE /\ ret' = [ret EXCEPT ![p] = NoEnv]
                  /\ Goto(p, "returned")
                  /\ UNCHANGED target
    /\ UNCHANGED <<flk, clock, fp, fd, pre, last, runs>>
    /\ UNCHANGED <<super, resolver, analysis>>

\* _create_new_venv(venv_name, current_fingerprint)
CreateNewVenv(p) ==
    /\ pc[p] = "create"
    /\ LET n == target[p]
           d == fs[n]
           ev == IF n = Requested THEN "create_orig" ELSE "create_fallback" IN
       \/ /\ CanCreate(d)
          /\ fs' = [fs EXCEPT ![n] = Created(d, fp[p])]
          /\ ret' = [ret EXCEPT ![p] = Env(n)]
          /\ Did(p, {"create", ev, "create_ok", "stamp"})
       \/ /\ \E e \in (IF d.kind = "absent" THEN {d, PartialDir} ELSE {d}) :
                fs' = [fs EXCEPT ![n] = e]
          /\ ret' = [ret EXCEPT ![p] = NoEnv]
          /\ Did(p, {"create", ev, "create_failed"})
    /\ Goto(p, "returned")
    /\ UNCHANGED <<flk, clock, fp, target, fd, pre, last, runs>>
    /\ UNCHANGED <<super, resolver, analysis>>

\* the clock advances
Tick ==
    /\ clock < MaxClock
    /\ clock' = clock + 1
    /\ UNCHANGED <<fs, flk, pc, fp, target, fd, ret, did, pre, last, runs>>
    /\ UNCHANGED <<super, resolver, analysis>>

\* one step of setup_venv in process p
SetupStep(p) ==
    \/ ExistsCheck(p)
    \/ LockOpen(p)
    \/ LockFlock(p)
    \/ LockUnflock(p)
    \/ LockUnlink(p)
    \/ UnlockExists(p)
    \/ UnlockUnlink(p)
    \/ UnlockGlob(p)
    \/ OwnerCheck(p)
    \/ RemoveForeign(p)
    \/ ValidCheck(p)
    \/ RemoveInvalid(p)
    \/ CreateNewVenv(p)

\* ---------------------------------------------------------------- run_script
\* what ScriptAnalyzer finds in the selected script
Scripts == [sudo : BOOLEAN, streamlit : BOOLEAN, interactive : BOOLEAN]

\* requirements.txt: absent, or a file of one line per package
Manifests ==
    {[exists |-> FALSE, lines |-> 0]} \cup {[exists |-> TRUE, lines |-> k] : k \in 1..MaxLines}

NoStderr == [captured |-> FALSE, missing |-> FALSE]

\* a script that is run by the regular runner with its output captured
PlainScript == [sudo |-> FALSE, streamlit |-> FALSE, interactive |-> FALSE]

\* main / run_script: a tool process starts on a script with external dependencies
Start(p) ==
    /\ pc[p] = "idle"
    /\ CallSetup(p)
    /\ script' = [script EXCEPT ![p] = PlainScript]
    /\ UNCHANGED <<stderr, retries, fixes, status, manifest, idx, failed, resolver, analysis>>

\* the installer is run whether or not setup_venv returned an environment
AfterSetupInstallsAnyway(p) ==
    /\ pc[p] = "returned"
    /\ status[p] = -1
    /\ Goto(p, "install")
    /\ did' = [did EXCEPT ![p] = {}]
    /\ pre' = [pre EXCEPT ![p] = [n \in Names |-> AbsentDir]]
    /\ UNCHANGED <<analysis, resolver, store, super>>

\* run_script: if venv_path: ... else: run directly; the locals of setup_venv
\* are gone and the record of the call is closed
AfterSetup(p) ==
    /\ pc[p] = "returned"
    /\ status[p] = -1
    /\ IF ret[p].tag = "path" THEN Goto(p, "install") ELSE Goto(p, "direct")
    /\ did' = [did EXCEPT ![p] = {}]
    /\ pre' = [pre EXCEPT ![p] = [n \in Names |-> AbsentDir]]
    /\ UNCHANGED <<analysis, resolver, store, super>>

\* install_dependencies: if not Path("requirements.txt").exists(): return
InstallCheck(p) ==
    /\ pc[p] = "install"
    /\ IF manifest.exists
       THEN Goto(p, "pip_upgrade") /\ UNCHANGED did
       ELSE Goto(p, "run") /\ Did(p, {"no_manifest"})
    /\ UNCHANGED <<analysis, resolver, store, pre, super>>

\* install_dependencies: pip install --upgrade pip (check=True, no timeout);
\* a failure is caught by "except Exception" at the end of the function, and a
\* subprocess that never exits is waited for
UpgradePip(p) ==
    /\ pc[p] = "pip_upgrade"
    /\ \/ Goto(p, "bulk") /\ Did(p, {"upgrade_ok"})
       \/ Goto(p, "run") /\ Did(p, {"upgrade_failed", "install_unexpected"})
       \/ Goto(p, "upgrade_wait") /\ Did(p, {"upgrade_hung"})
    /\ UNCHANGED <<analysis, resolver, store, pre, super>>

\* a bulk timeout enters the per-package pass like a non-zero exit
BulkInstallTimeoutRetries(p) ==
    /\ pc[p] = "bulk"
    /\ \/ /\ Goto(p, "run")
          /\ Did(p, {"bulk", "bulk_ok"})
          /\ UNCHANGED idx
       \/ /\ Goto(p, "each")
          /\ Did(p, {"bulk", "bulk_failed"})
          /\ idx' = [idx EXCEPT ![p] = 1]
       \/ /\ Goto(p, "each")
          /\ Did(p, {"bulk", "bulk_timeout", "install_timeout"})
          /\ idx' = [idx EXCEPT ![p] = 1]
    /\ UNCHANGED <<analysis, resolver, store, pre, script, stderr, retries, fixes, status, manifest, failed>>

\* install_dependencies: pip install -r requirements.txt (timeout=300)
BulkInstall(p) ==
    /\ pc[p] = "bulk"
    /\ \/ /\ Goto(p, "run")
          /\ Did(p, {"bulk", "bulk_ok"})
          /\ UNCHANGED idx
       \/ /\ Goto(p, "each")
          /\ Did(p, {"bulk", "bulk_failed"})
          /\ idx' = [idx EXCEPT ![p] = 1]
       \/ /\ Goto(p, "run")
          /\ Did(p, {"bulk", "bulk_timeout", "install_timeout"})
          /\ UNCHANGED idx
    /\ UNCHANGED <<analysis, resolver, store, pre, script, stderr, retries, fixes, status, manifest, failed>>

\* install_dependencies: one round of "for req in requirements" (timeout=120);
\* CalledProcessError is caught in the loop, TimeoutExpired outside of it
InstallEach(p) ==
    /\ pc[p] = "each"
    /\ IF idx[p] > manifest.lines
       THEN /\ Goto(p, "run")
            /\ idx' = [idx EXCEPT ![p] = 0]
            /\ failed' = [failed EXCEPT ![p] = {}]
            /\ Did(p, IF failed[p] = {} THEN {"each_done"} ELSE {"each_done", "some_failed"})
       ELSE \/ /\ idx' = [idx EXCEPT ![p] = @ + 1]
               /\ UNCHANGED <<pc, failed, did>>
            \/ /\ idx' = [idx EXCEPT ![p] = @ + 1]
               /\ failed' = [failed EXCEPT ![p] = @ \cup {idx[p]}]
               /\ UNCHANGED <<pc, did>>
            \/ /\ Goto(p, "run")
               /\ idx' = [idx EXCEPT ![p] = 0]
               /\ failed' = [failed EXCEPT ![p] = {}]
               /\ Did(p, {"install_timeout", "each_aborted"}
                           \cup (IF idx[p] < manifest.lines THEN {"lines_skipped"} ELSE {}))
    /\ UNCHANGED <<analysis, resolver, store, pre, script, stderr, retries, fixes, status, manifest>>

\* _run_script_with_env: which runner the script is given to
RunMode(s) ==
    IF s.sudo THEN "sudo"
    ELSE IF s.streamlit THEN "streamlit"
    ELSE IF s.interactive THEN "interactive"
    ELSE "captured"

\* every runner captures the standard error of the run
FailedRunsAllCaptured(s) ==
    {[captured |-> TRUE, missing |-> m] : m \in BOOLEAN}

\* what a failed run hands to _handle_script_error as error.stderr
FailedRuns(s) ==
    IF RunMode(s) = "captured"
    THEN {[captured |-> TRUE, missing |-> m] : m \in BOOLEAN}
    ELSE {NoStderr}

\* a run that did not fail always ends the tool with status 0
RunReturnsToRunScript(p) ==
    Goto(p, "done") /\ status' = [status EXCEPT ![p] = 0]

\* the end of a run that did not fail: back in run_script (the tool ends with
\* status 0) or back in the _handle_script_error that retried (sys.exit(1))
RunReturns(p) ==
    IF retries[p] = 0
    THEN Goto(p, "done") /\ status' = [status EXCEPT ![p] = 0]
    ELSE Goto(p, "done") /\ status' = [status EXCEPT ![p] = 1]

\* venv/bin/streamlit may be missing: no install of this invocation put it there
StreamlitMayBeMissing(p) ==
    /\ "bulk_ok" \notin did[p]
    /\ ~("each_done" \in did[p] /\ "some_failed" \notin did[p])

\* _run_script_with_env: the sudo, Streamlit or regular run of the script
RunWithEnv(p) ==
    /\ pc[p] = "run"
    /\ \/ \* the script ran: exit status 0, or a failed sudo run that is only printed
          /\ RunReturns(p)
          /\ Did(p, {"ran"})
          /\ UNCHANGED stderr
       \/ \* _handle_sudo_script_with_env: port 80 is in use, nothing is started
          /\ RunMode(script[p]) = "sudo"
          /\ RunReturns(p)
          /\ Did(p, {"port_conflict"})
          /\ UNCHANGED stderr
       \/ \* _run_streamlit_app: the executable is missing, FileNotFoundError is
          \* not among the exceptions the runner catches
          /\ RunMode(script[p]) = "streamlit"
          /\ StreamlitMayBeMissing(p)
          /\ Goto(p, "aborted")
          /\ status' = [status EXCEPT ![p] = 1]
          /\ Did(p, {"not_started"})
          /\ UNCHANGED stderr
       \/ \* CalledProcessError in the Streamlit or regular runner
          /\ RunMode(script[p]) # "sudo"
          /\ \E e \in FailedRuns(script[p]) : stderr' = [stderr EXCEPT ![p] = e]
          /\ Goto(p, "handle")
          /\ Did(p, {"ran", "failed"})
          /\ UNCHANGED status
    /\ UNCHANGED <<analysis, resolver, store, pre, script, retries, fixes, manifest, idx, failed>>

\* every captured error is taken for a missing module
MissingDetectedAnyError(e) == e.captured

\* re.search(r"No module named '([^']+)'", error_msg) matches
MissingDetected(e) == e.captured /\ e.missing

\* _handle_script_error: print the error, look for a missing module
HandleScriptError(p) ==
    /\ pc[p] = "handle"
    /\ IF MissingDetected(stderr[p])
       THEN Goto(p, "prompt") /\ UNCHANGED status
       ELSE Goto(p, "done") /\ status' = [status EXCEPT ![p] = 1]
    /\ UNCHANGED <<analysis, resolver, store, did, pre, script, stderr, retries, fixes, manifest, idx, failed>>

\* _handle_script_error: confirm_action("Attempt to fix automatically?")
ConfirmAction(p) ==
    /\ pc[p] = "prompt"
    /\ \/ /\ retries[p] < MaxRetries
          /\ Goto(p, "fix")
          /\ UNCHANGED status
       \/ /\ Goto(p, "done")
          /\ status' = [status EXCEPT ![p] = 1]
    /\ UNCHANGED <<analysis, resolver, store, did, pre, script, stderr, retries, fixes, manifest, idx, failed>>

\* _fix_missing_dependencies, then the retry through _run_script_with_env
FixAndRetry(p) ==
    /\ pc[p] = "fix"
    /\ fixes' = [fixes EXCEPT ![p] = @ + 1]
    /\ retries' = [retries EXCEPT ![p] = @ + 1]
    /\ Goto(p, "run")
    /\ Did(p, {"fix", "retry"})
    /\ UNCHANGED <<analysis, resolver, store, pre, script, stderr, status, manifest, idx, failed>>

\* _run_script_directly: the host interpreter (under sudo when the script needs
\* it), errors only printed; with port 80 in use the sudo runner starts nothing
RunDirectly(p) ==
    /\ pc[p] = "direct"
    /\ Goto(p, "done")
    /\ status' = [status EXCEPT ![p] = 0]
    /\ \/ Did(p, {"ran_direct"})
       \/ script[p].sudo /\ Did(p, {"port_conflict"})
    /\ UNCHANGED <<analysis, resolver, store, pre, script, stderr, retries, fixes, manifest, idx, failed>>

\* one step of run_script after setup_venv in process p
RunStep(p) ==
    \/ AfterSetup(p)
    \/ InstallCheck(p)
    \/ UpgradePip(p)
    \/ BulkInstall(p)
    \/ InstallEach(p)
    \/ RunWithEnv(p)
    \/ HandleScriptError(p)
    \/ ConfirmAction(p)
    \/ FixAndRetry(p)
    \/ RunDirectly(p)

\* ---------------------------------------------------------------- generate_requirements
\* module names a script may import
ImportNames ==
    {"os", "db_utils", "yaml", "psycopg2", "dotenv", "talib", "flask", "requests", "streamlit"}

\* the scripts: all_imports, and whether is_streamlit_app finds an import line
Sources == [imports : SUBSET ImportNames, streamlit_line : BOOLEAN]

\* no module is taken for a local one
NoLocalModules == {}

local_modules == {"db_utils"}

\* ScriptAnalyzer.is_stdlib_module
IsStdlibModule(imp) == imp = "os"

\* the rule that adds python-dotenv looks at dotenv only
CouplingOnDotenvOnly == {"dotenv"}

\* the imports that force python-dotenv into the manifest
Coupling == {"psycopg2", "dotenv"}

\* dependency_map[imp] when imp is a key, else the import name itself; the
\* entries r3.py adds map a name to itself
DependencyMap(imp) ==
    CASE imp = "talib" -> {"TA-Lib"}
      [] imp = "binance" -> {"python-binance"}
      [] imp = "sklearn" -> {"scikit-learn"}
      [] imp = "cv2" -> {"opencv-python"}
      [] imp = "PIL" -> {"pillow"}
      [] imp = "bs4" -> {"beautifulsoup4"}
      [] imp = "yaml" -> {"pyyaml"}
      [] imp = "dotenv" -> {"python-dotenv"}
      [] imp = "psycopg2" -> {"psycopg2-binary"}
      [] imp = "streamlit" -> {"streamlit"}
      [] OTHER -> {imp}

\* the development packages r3.py adds when the operator says yes
DevDependencies == {"pytest", "black", "flake8", "mypy"}

\* the set `requirements` at the point where the file is written
Requirements(src, ver, answer) ==
    UNION {DependencyMap(imp) :
             imp \in {i \in src.imports : i \notin local_modules /\ ~IsStdlibModule(i)}}
    \cup (IF src.imports \cap Coupling # {} THEN {"python-dotenv"} ELSE {})
    \cup (IF "streamlit" \in src.imports \/ src.streamlit_line THEN {"streamlit"} ELSE {})
    \cup (IF ver = "r3" /\ answer THEN DevDependencies ELSE {})

\* the names of the model in the order of Python's string comparison (code
\* points: upper case before lower case)
CodepointOrder ==
    <<"TA-Lib", "black", "db_utils", "flake8", "flask", "mypy", "os", "psycopg2-binary",
      "pytest", "python-dotenv", "pyyaml", "requests", "streamlit">>

Pos(x) == CHOOSE i \in 1..Len(CodepointOrder) : CodepointOrder[i] = x

\* a < b for strings
Less(a, b) == Pos(a) < Pos(b)

RECURSIVE Reversed(_)
\* the packages in descending order
Reversed(S) ==
    IF S = {} THEN << >>
    ELSE LET m == CHOOSE x \in S : \A y \in S \ {x} : Less(y, x)
         IN <<m>> \o Reversed(S \ {m})

RECURSIVE Sorted(_)
\* sorted(requirements)
Sorted(S) ==
    IF S = {} THEN << >>
    ELSE LET m == CHOOSE x \in S : \A y \in S \ {x} : Less(x, y)
         IN <<m>> \o Sorted(S \ {m})

RECURSIVE WriteLines(_)
\* for req in ...: f.write(f"{req}\n")
WriteLines(reqs) ==
    IF reqs = << >> THEN << >>
    ELSE <<Head(reqs), "\n">> \o WriteLines(Tail(reqs))

NoFile == [exists |-> FALSE, text |-> << >>]
FileOf(t) == [exists |-> TRUE, text |-> t]

\* what install_dependencies finds of a requirements.txt: its package lines
ManifestOf(f) ==
    [exists |-> f.exists,
     lines |-> Cardinality({i \in 1..Len(f.text) : f.text[i] = "\n"})]

\* a requirements.txt of k lines, as generate_requirements writes it: the
\* first k lines of the manifest of a script that imports every name
RequirementsOfLines(k) ==
    IF k = 0 THEN NoFile
    ELSE FileOf(WriteLines(SubSeq(
             Sorted(Requirements([imports |-> ImportNames, streamlit_line |-> FALSE],
                                 "r2", FALSE)), 1, k)))

\* generate_requirements(script_path): the operator's answer to the r3.py
\* prompt, the early return when nothing is required, the file written
GenerateRequirements ==
    /\ Len(outputs) < MaxCalls
    /\ \E answer \in (IF version = "r3" THEN BOOLEAN ELSE {FALSE}) :
         LET requirements == Requirements(source, version, answer)
             written == FileOf(WriteLines(Sorted(requirements)))
             after == IF requirements = {} THEN requirements_txt ELSE written
         IN /\ requirements_txt' = after
            /\ manifest' = ManifestOf(after)
            /\ outputs' = Append(outputs, [answer |-> answer,
                                           result |-> requirements # {},
                                           found |-> requirements_txt,
                                           exists |-> after.exists,
                                           text |-> after.text])
    /\ UNCHANGED <<source, version, repairs>>
    /\ UNCHANGED <<analysis, store, pc, did, pre, script, stderr, retries, fixes, status, idx, failed>>

\* what may happen to requirements.txt between two calls: it is deleted, or
\* edited by hand
OtherTexts == {NoFile, FileOf(<<"flask", "\n", "TA-Lib", "\n", "flask", "\n">>)}

TouchRequirements ==
    /\ Len(outputs) \in 1..(MaxCalls - 1)
    /\ \E f \in OtherTexts :
         /\ f # requirements_txt
         /\ requirements_txt' = f
         /\ manifest' = ManifestOf(f)
    /\ UNCHANGED <<source, version, outputs, repairs>>
    /\ UNCHANGED <<analysis, store, pc, did, pre, script, stderr, retries, fixes, status, idx, failed>>

\* the state of the resolver in the runs that start after generate_requirements
InitResolver ==
    /\ source = [imports |-> {"flask"}, streamlit_line |-> FALSE]
    /\ version = "r2"
    /\ requirements_txt = RequirementsOfLines(manifest.lines)
    /\ outputs = << >>
    /\ repairs = << >>

\* ---------------------------------------------------------------- _fix_missing_dependencies
\* the module names an error output may name: the keys of dependency_map and
\* of fix_map, and a name that is in neither
ModuleNames ==
    {"talib", "binance", "sklearn", "cv2", "yaml", "PIL", "bs4", "requests", "dotenv",
     "tqdm", "rich", "psycopg2", "streamlit", "flask"}

\* fix_map.get(module, module)
FixMap(module) ==
    CASE module = "talib" -> "TA-Lib"
      [] module = "dotenv" -> "python-dotenv"
      [] module = "cv2" -> "opencv-python"
      [] module = "yaml" -> "pyyaml"
      [] module = "PIL" -> "pillow"
      [] module = "sklearn" -> "scikit-learn"
      [] module = "binance" -> "python-binance"
      [] module = "psycopg2" -> "psycopg2-binary"
      [] OTHER -> module

\* re.findall(r"No module named '([^']+)'", error_output): one or two modules
ErrorOutputs ==
    {<<m>> : m \in ModuleNames} \cup {<<m, n>> : m, n \in ModuleNames}

\* _fix_missing_dependencies: one round of "for module in missing_modules",
\* pip install package; CalledProcessError is caught and printed
FixMissingDependencies(p) ==
    /\ pc[p] = "fix"
    /\ Len(repairs) < Len(stderr[p].modules)
    /\ LET module == stderr[p].modules[Len(repairs) + 1]
           package == FixMap(module)
       IN \E ok \in BOOLEAN :
            repairs' = Append(repairs, [module |-> module, package |-> package,
                                        ok |-> ok])
    /\ UNCHANGED <<source, version, requirements_txt, outputs>>
    /\ UNCHANGED <<analysis, store, super, pc, did, pre>>

\* ---------------------------------------------------------------- get_project_fingerprint
\* the names Path('.').glob('*.py') may find, in the order sorted() puts paths
PathOrder == <<"a.py", "b.py", "c.py">>

PyNames == {PathOrder[i] : i \in 1..Len(PathOrder)}

ByteValues == {"x", "y"}

RECURSIVE ByteStrings(_)
\* the byte strings of at most n bytes
ByteStrings(n) ==
    IF n = 0 THEN {<< >>}
    ELSE LET S == ByteStrings(n - 1)
         IN S \cup {Append(b, v) : b \in {c \in S : Len(c) = n - 1}, v \in ByteValues}

Contents == ByteStrings(MaxBytes)

\* a file of the project directory: its bytes, whether open() can read it, and
\* its modification time
NoSource == [present |-> FALSE, content |-> << >>, readable |-> TRUE, mtime |-> 0]
SourceFile(c, r) == [present |-> TRUE, content |-> c, readable |-> r, mtime |-> 0]

\* the orders in which glob may enumerate the scripts that exist
Listings(files) ==
    LET present == {n \in PyNames : files[n].present}
    IN {l \in [1..Cardinality(present) -> present] :
          \A i, j \in 1..Cardinality(present) : l[i] = l[j] => i = j}

\* the scripts are hashed in the order glob gave them
ListingOrder(listing) == listing

\* sorted(scripts)
SortedPaths(listing) ==
    SelectSeq(PathOrder, LAMBDA n : \E i \in 1..Len(listing) : listing[i] = n)

RECURSIVE Stream(_, _)
\* for script in ...: content_hash.update(f.read()), a file that cannot be read skipped
Stream(files, paths) ==
    IF paths = << >> THEN << >>
    ELSE (IF files[Head(paths)].readable THEN files[Head(paths)].content ELSE << >>)
         \o Stream(files, Tail(paths))

\* requirements.txt is not hashed
ManifestIgnored(m) == << >>

\* if requirements_file.exists(): content_hash.update(f.read())
ManifestBytes(m) == IF m.present /\ m.readable THEN m.content ELSE << >>

\* content_hash.hexdigest(), the digest taken as collision-free: it determines
\* the bytes that were hashed
HexDigest(stream) == <<"md5", stream>>

\* get_project_fingerprint() on a project whose scripts glob lists in some order
ProjectFingerprint(proj, listing) ==
    HexDigest(Stream(proj.files, SortedPaths(listing)) \o ManifestBytes(proj.manifest))

\* get_project_fingerprint
GetProjectFingerprint ==
    /\ Len(prints) < MaxPrints
    /\ \E listing \in Listings(project.files) :
         prints' = Append(prints, [files |-> project.files,
                                   manifest |-> project.manifest,
                                   edit |-> project.edit,
                                   listing |-> listing,
                                   digest |-> ProjectFingerprint(project, listing)])
    /\ project' = [project EXCEPT !.edit = "none"]
    /\ UNCHANGED <<text, scan, resolver, store, super, pc, did, pre>>

\* one edit is made between two fingerprints
CanEdit == prints # << >> /\ Len(prints) < MaxPrints /\ project.edit = "none"

\* bytes of a source file are changed, inserted or deleted
EditBytes ==
    /\ CanEdit
    /\ \E n \in PyNames, c \in Contents :
         /\ project.files[n].present
         /\ c # project.files[n].content
         /\ project' = [project EXCEPT !.files[n].content = c, !.files[n].mtime = 1,
                                        !.edit = "content"]
    /\ UNCHANGED <<prints, text, scan, resolver, store, super, pc, did, pre>>

\* requirements.txt is changed, written or deleted
EditManifest ==
    /\ CanEdit
    /\ \E m \in {NoSource} \cup {SourceFile(c, TRUE) : c \in Contents} :
         /\ m # project.manifest
         /\ project' = [project EXCEPT !.manifest = m, !.edit = "manifest"]
    /\ UNCHANGED <<prints, text, scan, resolver, store, super, pc, did, pre>>

\* a source file is added
AddSource ==
    /\ CanEdit
    /\ \E n \in PyNames, c \in Contents :
         /\ ~project.files[n].present
         /\ project' = [project EXCEPT !.files[n] = SourceFile(c, TRUE), !.edit = "add"]
    /\ UNCHANGED <<prints, text, scan, resolver, store, super, pc, did, pre>>

\* a source file is removed
RemoveSource ==
    /\ CanEdit
    /\ \E n \in PyNames :
         /\ project.files[n].present
         /\ project' = [project EXCEPT !.files[n] = NoSource, !.edit = "remove"]
    /\ UNCHANGED <<prints, text, scan, resolver, store, super, pc, did, pre>>

\* a source file is renamed
RenameSource ==
    /\ CanEdit
    /\ \E n, m \in PyNames :
         /\ project.files[n].present
         /\ ~project.files[m].present
         /\ project' = [project EXCEPT !.files[m] = project.files[n],
                                        !.files[n] = NoSource, !.edit = "rename"]
    /\ UNCHANGED <<prints, text, scan, resolver, store, super, pc, did, pre>>

\* a source file is saved again with the bytes it had: a new modification time
TouchSource ==
    /\ CanEdit
    /\ \E n \in PyNames :
         /\ project.files[n].present
         /\ project.files[n].mtime = 0
         /\ project' = [project EXCEPT !.files[n].mtime = 1, !.edit = "touch"]
    /\ UNCHANGED <<prints, text, scan, resolver, store, super, pc, did, pre>>

\* ---------------------------------------------------------------- extract_imports
\* what ast.parse makes of a script text: a tree, SyntaxError, another exception
\* (RecursionError or MemoryError on deeply nested expressions); or the file
\* cannot be read at all
TextKinds == {"parses", "syntax_error", "too_deep", "unreadable"}

\* extract_imports(script_path): the names from the tree, or from the line
\* patterns after a SyntaxError, or the empty set for an unreadable file
ExtractImports(t, src) ==
    CASE t.kind = "unreadable" -> [raised |-> FALSE, names |-> {}]
      [] t.kind = "parses" -> [raised |-> FALSE, names |-> src.imports]
      [] t.kind = "syntax_error" -> [raised |-> FALSE, names |-> t.line_names]
      [] OTHER -> [raised |-> TRUE, names |-> {}]

NoScan == [state |-> "none", names |-> {}, external |-> FALSE]

\* has_external_dependencies(script_path)
HasExternalDependencies ==
    /\ scan = NoScan
    /\ LET all_imports == ExtractImports(text, source) IN
       scan' = IF all_imports.raised
               THEN [state |-> "raised", names |-> {}, external |-> FALSE]
               ELSE [state |-> "returned",
                     names |-> all_imports.names,
                     external |->
                         \/ \E imp \in all_imports.names :
                               imp \notin local_modules /\ ~IsStdlibModule(imp)
                         \/ "streamlit" \in all_imports.names]
    /\ UNCHANGED <<project, prints, text, resolver, store, super, pc, did, pre>>

\* the analysis state of the runs that do not look at it
InitAnalysis ==
    /\ project = [files |-> [n \in PyNames |-> NoSource], manifest |-> NoSource,
                  edit |-> "none"]
    /\ prints = << >>
    /\ text = [kind |-> "parses", line_names |-> {}]
    /\ scan = NoScan

\* ---------------------------------------------------------------- sequential runs
InitSuper ==
    /\ script = [p \in Procs |-> PlainScript]
    /\ stderr = [p \in Procs |-> NoStderr]
    /\ retries = [p \in Procs |-> 0]
    /\ fixes = [p \in Procs |-> 0]
    /\ status = [p \in Procs |-> -1]
    /\ manifest = [exists |-> TRUE, lines |-> 1]
    /\ idx = [p \in Procs |-> 0]
    /\ failed = [p \in Procs |-> {}]

Init ==
    /\ \E d \in InitDirs :
         /\ fs = [n \in Names |-> IF n = Requested THEN d ELSE AbsentDir]
         /\ \E h \in (IF d.lock # 0 THEN {Free, Ext} ELSE {Free}) :
              flk = [i \in Inodes |-> IF i = 1 THEN h ELSE Free]
    /\ clock = 1
    /\ pc = [p \in Procs |-> "idle"]
    /\ fp = [p \in Procs |-> "F1"]
    /\ target = [p \in Procs |-> Requested]
    /\ fd = [p \in Procs |-> 0]
    /\ ret = [p \in Procs |-> Pending]
    /\ did = [p \in Procs |-> {}]
    /\ pre = [p \in Procs |-> [n \in Names |-> AbsentDir]]
    /\ last = [fp |-> "F1", ret |-> Pending]
    /\ runs = 0
    /\ InitSuper
    /\ InitResolver
    /\ InitAnalysis

Next ==
    \/ Invoke(1)
    \/ SetupStep(1)
    \/ Tick

Spec == Init /\ [][Next]_vars

\* the environments whose sentinel lock a foreign process holds, and never releases
InitLive == Init /\ flk[1] = Ext

\* a call of setup_venv that has started goes on: the interpreter runs the
\* process, and the subprocesses it starts terminate
SpecLive == InitLive /\ [][Next]_vars /\ WF_vars(SetupStep(1))

\* ---------------------------------------------------------------- one invocation
\* run_script of one tool process from the return of setup_venv on: the
\* environment of the requested name, or none
InitRun ==
    /\ fs = [n \in Names |->
               IF n = Requested THEN [FreshDir EXCEPT !.stamp = WriteText("F1")]
               ELSE AbsentDir]
    /\ flk = [i \in Inodes |-> Free]
    /\ clock = 1
    /\ pc = [p \in Procs |-> IF p = 1 THEN "returned" ELSE "idle"]
    /\ fp = [p \in Procs |-> "F1"]
    /\ target = [p \in Procs |-> Requested]
    /\ fd = [p \in Procs |-> 0]
    /\ \E r \in {Env(Requested), NoEnv} :
         ret = [p \in Procs |-> IF p = 1 THEN r ELSE Pending]
    /\ did = [p \in Procs |-> {}]
    /\ pre = [p \in Procs |-> fs]
    /\ last = [fp |-> "F1", ret |-> Pending]
    /\ runs = 1
    /\ \E s \in Scripts : script = [p \in Procs |-> IF p = 1 THEN s ELSE PlainScript]
    /\ stderr = [p \in Procs |-> NoStderr]
    /\ retries = [p \in Procs |-> 0]
    /\ fixes = [p \in Procs |-> 0]
    /\ status = [p \in Procs |-> -1]
    /\ manifest \in Manifests
    /\ idx = [p \in Procs |-> 0]
    /\ failed = [p \in Procs |-> {}]
    /\ InitResolver
    /\ InitAnalysis

NextRun == RunStep(1)

SpecRun == InitRun /\ [][NextRun]_vars

\* ---------------------------------------------------------------- concurrent runs
\* two tool processes started on a project directory that holds no environment
\* or a usable one
UsableDirs ==
    {AbsentDir} \cup {[FreshDir EXCEPT !.stamp = WriteText(f)] : f \in FPs}

InitConc ==
    /\ \E d \in UsableDirs :
         fs = [n \in Names |-> IF n = Requested THEN d ELSE AbsentDir]
    /\ flk = [i \in Inodes |-> Free]
    /\ clock = 1
    /\ pc = [p \in Procs |-> "idle"]
    /\ fp = [p \in Procs |-> "F1"]
    /\ target = [p \in Procs |-> Requested]
    /\ fd = [p \in Procs |-> 0]
    /\ ret = [p \in Procs |-> Pending]
    /\ did = [p \in Procs |-> {}]
    /\ pre = [p \in Procs |-> [n \in Names |-> AbsentDir]]
    /\ last = [fp |-> "F1", ret |-> Pending]
    /\ runs = 0
    /\ InitSuper
    /\ InitResolver
    /\ InitAnalysis

\* run_script from the return of setup_venv to the end of the tool process, as
\* one step: the installs and the runs of the script in the environment that
\* was returned (or the direct run); none of them reads or writes the
\* environment roots' stamps, locks or owners
UseAndExit(p) ==
    /\ pc[p] = "returned"
    /\ status[p] = -1
    /\ Goto(p, "done")
    /\ \E x \in {0, 1} : status' = [status EXCEPT ![p] = x]
    /\ UNCHANGED <<analysis, resolver, store, did, pre, script, stderr, retries, fixes, manifest, idx, failed>>

NextConc ==
    \/ \E p \in Procs : Start(p) \/ SetupStep(p) \/ UseAndExit(p)
    \/ Tick

SpecConc == InitConc /\ [][NextConc]_vars

\* ---------------------------------------------------------------- resolver runs
\* generate_requirements of r2.py or r3.py called again and again on one
\* script, whatever requirements.txt held before
InitGen ==
    /\ fs = [n \in Names |-> AbsentDir]
    /\ flk = [i \in Inodes |-> Free]
    /\ clock = 1
    /\ pc = [p \in Procs |-> "idle"]
    /\ fp = [p \in Procs |-> "F1"]
    /\ target = [p \in Procs |-> Requested]
    /\ fd = [p \in Procs |-> 0]
    /\ ret = [p \in Procs |-> Pending]
    /\ did = [p \in Procs |-> {}]
    /\ pre = [p \in Procs |-> fs]
    /\ last = [fp |-> "F1", ret |-> Pending]
    /\ runs = 0
    /\ script = [p \in Procs |-> PlainScript]
    /\ stderr = [p \in Procs |-> NoStderr]
    /\ retries = [p \in Procs |-> 0]
    /\ fixes = [p \in Procs |-> 0]
    /\ status = [p \in Procs |-> -1]
    /\ idx = [p \in Procs |-> 0]
    /\ failed = [p \in Procs |-> {}]
    /\ source \in Sources
    /\ version \in {"r2", "r3"}
    /\ requirements_txt \in OtherTexts
    /\ manifest = ManifestOf(requirements_txt)
    /\ outputs = << >>
    /\ repairs = << >>
    /\ InitAnalysis

NextGen == GenerateRequirements \/ TouchRequirements

SpecGen == InitGen /\ [][NextGen]_vars

\* ---------------------------------------------------------------- analysis runs
\* the tool is not running a script
InitIdle ==
    /\ fs = [n \in Names |-> AbsentDir]
    /\ flk = [i \in Inodes |-> Free]
    /\ clock = 1
    /\ pc = [p \in Procs |-> "idle"]
    /\ fp = [p \in Procs |-> "F1"]
    /\ target = [p \in Procs |-> Requested]
    /\ fd = [p \in Procs |-> 0]
    /\ ret = [p \in Procs |-> Pending]
    /\ did = [p \in Procs |-> {}]
    /\ pre = [p \in Procs |-> fs]
    /\ last = [fp |-> "F1", ret |-> Pending]
    /\ runs = 0
    /\ InitSuper

\* get_project_fingerprint on a project directory before and after an edit
InitPrint ==
    /\ InitIdle
    /\ InitResolver
    /\ \E f \in [PyNames -> {NoSource, SourceFile(<<"x">>, FALSE)}
                             \cup {SourceFile(c, TRUE) : c \in ByteStrings(1)}],
          m \in {NoSource, SourceFile(<< >>, TRUE), SourceFile(<<"x">>, TRUE)} :
         project = [files |-> f, manifest |-> m, edit |-> "none"]
    /\ prints = << >>
    /\ text = [kind |-> "parses", line_names |-> {}]
    /\ scan = NoScan

NextPrint ==
    \/ GetProjectFingerprint
    \/ EditBytes
    \/ EditManifest
    \/ AddSource
    \/ RemoveSource
    \/ RenameSource
    \/ TouchSource

SpecPrint == InitPrint /\ [][NextPrint]_vars

\* the scripts has_external_dependencies is called on
ScanNames == {"os", "db_utils", "requests", "streamlit"}

InitScan ==
    /\ InitIdle
    /\ source \in {src \in Sources : src.imports \subseteq ScanNames}
    /\ version = "r2"
    /\ requirements_txt = RequirementsOfLines(manifest.lines)
    /\ outputs = << >>
    /\ repairs = << >>
    /\ project = [files |-> [n \in PyNames |-> NoSource], manifest |-> NoSource,
                  edit |-> "none"]
    /\ prints = << >>
    /\ \E k \in TextKinds, l \in SUBSET source.imports :
         text = [kind |-> k, line_names |-> l]
    /\ scan = NoScan

NextScan == HasExternalDependencies

SpecScan == InitScan /\ [][NextScan]_vars

\* ---------------------------------------------------------------- repair runs
\* _handle_script_error has called _fix_missing_dependencies with the captured
\* error output of the failed run
InitFix ==
    /\ fs = [n \in Names |->
               IF n = Requested THEN [FreshDir EXCEPT !.stamp = WriteText("F1")]
               ELSE AbsentDir]
    /\ flk = [i \in Inodes |-> Free]
    /\ clock = 1
    /\ pc = [p \in Procs |-> IF p = 1 THEN "fix" ELSE "idle"]
    /\ fp = [p \in Procs |-> "F1"]
    /\ target = [p \in Procs |-> Requested]
    /\ fd = [p \in Procs |-> 0]
    /\ ret = [p \in Procs |-> IF p = 1 THEN Env(Requested) ELSE Pending]
    /\ did = [p \in Procs |-> IF p = 1 THEN {"ran", "failed"} ELSE {}]
    /\ pre = [p \in Procs |-> [n \in Names |-> AbsentDir]]
    /\ last = [fp |-> "F1", ret |-> Pending]
    /\ runs = 1
    /\ script = [p \in Procs |-> PlainScript]
    /\ \E e \in ErrorOutputs :
         stderr = [p \in Procs |->
                     IF p = 1 THEN [captured |-> TRUE, missing |-> TRUE, modules |-> e]
                     ELSE NoStderr]
    /\ retries = [p \in Procs |-> 0]
    /\ fixes = [p \in Procs |-> 0]
    /\ status = [p \in Procs |-> -1]
    /\ manifest = [exists |-> TRUE, lines |-> 1]
    /\ idx = [p \in Procs |-> 0]
    /\ failed = [p \in Procs |-> {}]
    /\ InitResolver
    /\ InitAnalysis

NextFix == FixMissingDependencies(1)

SpecFix == InitFix /\ [][NextFix]_vars

\* ---------------------------------------------------------------- run_script, whole
\* run_script: if ScriptAnalyzer.has_external_dependencies(script_path)
RunScriptAnalyse ==
    /\ pc[1] = "idle"
    /\ HasExternalDependencies

\* run_script: self.deps.generate_requirements(script_path), once per invocation
RunScriptGenerate ==
    /\ pc[1] = "idle"
    /\ scan.state = "returned" /\ scan.external
    /\ Len(outputs) = Len(prints) /\ Len(prints) = runs
    /\ GenerateRequirements

\* the project directory as get_project_fingerprint finds it: the scripts, and
\* requirements.txt as the resolver left it
ProjectNow ==
    [files |-> project.files,
     manifest |-> [present |-> requirements_txt.exists, content |-> requirements_txt.text,
                   readable |-> TRUE, mtime |-> 0]]

\* the fingerprint is computed before requirements.txt is written
RunScriptFingerprintEarly ==
    /\ pc[1] = "idle"
    /\ scan.state = "returned" /\ scan.external
    /\ Len(prints) = Len(outputs)
    /\ Len(prints) < MaxPrints
    /\ \E listing \in Listings(project.files) :
         prints' = Append(prints, [files |-> ProjectNow.files,
                                   manifest |-> ProjectNow.manifest,
                                   edit |-> "none",
                                   listing |-> listing,
                                   digest |-> ProjectFingerprint(ProjectNow, listing)])
    /\ UNCHANGED <<project, text, scan, resolver, store, super, pc, did, pre>>

\* run_script: project_fingerprint = self.deps.get_project_fingerprint()
RunScriptFingerprint ==
    /\ pc[1] = "idle"
    /\ Len(prints) < Len(outputs)
    /\ Len(prints) < MaxPrints
    /\ \E listing \in Listings(project.files) :
         prints' = Append(prints, [files |-> ProjectNow.files,
                                   manifest |-> ProjectNow.manifest,
                                   edit |-> "none",
                                   listing |-> listing,
                                   digest |-> ProjectFingerprint(ProjectNow, listing)])
    /\ UNCHANGED <<project, text, scan, resolver, store, super, pc, did, pre>>

\* run_script: venv_path = self.deps.setup_venv("venv", project_fingerprint)
RunScriptSetup ==
    /\ scan.state = "returned" /\ scan.external
    /\ Len(prints) = Len(outputs) /\ Len(prints) = runs + 1
    /\ Start(1)

\* run_script: else: self._run_script_directly(script_path, needs_sudo)
RunScriptStdlibOnly ==
    /\ pc[1] = "idle"
    /\ scan.state = "returned" /\ ~scan.external
    /\ Goto(1, "direct")
    /\ UNCHANGED <<analysis, resolver, store, super, did, pre>>

\* the scripts of the project directory at the next invocation: as they were,
\* or edited in between
NextProjects ==
    {project} \cup {[project EXCEPT !.files[n].content = c] :
                       n \in {m \in PyNames : project.files[m].present},
                       c \in {<<"x">>, <<"y">>}}

\* main: the tool has ended and is started again on the same script
Restart ==
    /\ pc[1] \in {"done", "aborted", "crashed"} \/ scan.state = "raised"
    /\ runs < MaxRuns /\ Len(outputs) < MaxCalls /\ Len(prints) < MaxPrints
    /\ pc' = [pc EXCEPT ![1] = "idle"]
    /\ did' = [did EXCEPT ![1] = {}]
    /\ status' = [status EXCEPT ![1] = -1]
    /\ retries' = [retries EXCEPT ![1] = 0]
    /\ fixes' = [fixes EXCEPT ![1] = 0]
    /\ stderr' = [stderr EXCEPT ![1] = NoStderr]
    /\ scan' = NoScan
    /\ project' \in NextProjects
    /\ UNCHANGED <<prints, text, resolver, store, pre, script, manifest, idx, failed>>

\* the modules the script of the whole-run specification may import
PipeNames == {"os", "db_utils", "requests"}

\* the environments the first invocation may find: none, a usable one, or one
\* whose sentinel lock a foreign process holds
PipeDirs ==
    {AbsentDir} \cup {[FreshDir EXCEPT !.stamp = WriteText(f)] : f \in FPs}
    \cup {[FreshDir EXCEPT !.stamp = WriteText("F1"), !.lock = 1]}

InitPipe ==
    /\ \E d \in PipeDirs :
         /\ fs = [n \in Names |-> IF n = Requested THEN d ELSE AbsentDir]
         /\ flk = [i \in Inodes |-> IF i = 1 /\ d.lock = 1 THEN Ext ELSE Free]
    /\ clock = 1
    /\ pc = [p \in Procs |-> "idle"]
    /\ fp = [p \in Procs |-> "F1"]
    /\ target = [p \in Procs |-> Requested]
    /\ fd = [p \in Procs |-> 0]
    /\ ret = [p \in Procs |-> Pending]
    /\ did = [p \in Procs |-> {}]
    /\ pre = [p \in Procs |-> [n \in Names |-> AbsentDir]]
    /\ last = [fp |-> "F1", ret |-> Pending]
    /\ runs = 0
    /\ script = [p \in Procs |-> PlainScript]
    /\ stderr = [p \in Procs |-> NoStderr]
    /\ retries = [p \in Procs |-> 0]
    /\ fixes = [p \in Procs |-> 0]
    /\ status = [p \in Procs |-> -1]
    /\ idx = [p \in Procs |-> 0]
    /\ failed = [p \in Procs |-> {}]
    /\ source \in {src \in Sources : src.imports \subseteq PipeNames /\ ~src.streamlit_line}
    /\ version = "r2"
    /\ requirements_txt \in OtherTexts
    /\ manifest = ManifestOf(requirements_txt)
    /\ outputs = << >>
    /\ repairs = << >>
    /\ project = [files |-> [n \in PyNames |->
                                IF n = "c.py" THEN NoSource ELSE SourceFile(<<"x">>, TRUE)],
                  manifest |-> NoSource, edit |-> "none"]
    /\ prints = << >>
    /\ \E k \in TextKinds :
         text = [kind |-> k,
                 line_names |-> IF k = "syntax_error" THEN source.imports ELSE {}]
    /\ scan = NoScan

NextPipe ==
    \/ RunScriptAnalyse
    \/ RunScriptGenerate
    \/ RunScriptFingerprint
    \/ RunScriptSetup
    \/ RunScriptStdlibOnly
    \/ SetupStep(1)
    \/ RunStep(1)
    \/ Restart

SpecPipe == InitPipe /\ [][NextPipe]_vars

\* ---------------------------------------------------------------- properties
\* the setup_venv call of process p has ended (returned, or raised)
Complete(p) == pc[p] \in {"returned", "crashed"}

\* the environment the call found at the requested path
Found(p) == pre[p][Requested]

Some(f) == [some |-> TRUE, val |-> f]

\* the second of two consecutive calls with the same fingerprint has ended
SecondOfTwo(p) == Complete(p) /\ runs >= 2 /\ last.fp = fp[p] /\ last.ret.tag = "path"

Destructive == {"rmtree", "chmod", "create", "create_orig", "create_fallback", "stamp"}

\* C1 as stated: two consecutive calls with the same fingerprint return the same
\* path and the second neither removes nor creates, whatever the first call did
\* (reuse, repair, rebuild or relocation).
C1_Original ==
    SecondOfTwo(1) => ret[1] = last.ret /\ did[1] \cap Destructive = {}

\* C1 amended: when the first of two consecutive calls with the same fingerprint
\* returned the environment under the requested name, the second call returns
\* the same path by reuse and neither removes nor creates anything.
C1_Validity ==
    (SecondOfTwo(1) /\ last.ret = Env(Requested))
        => /\ ret[1] = Env(Requested)
           /\ "reuse" \in did[1]
           /\ did[1] \cap Destructive = {}

\* the second call reused an environment that the first call had to build
C1_Witness ==
    /\ SecondOfTwo(1)
    /\ last.ret = Env(Requested)
    /\ "reuse" \in did[1]
    /\ Found(1).stamp = WriteText(fp[1])
    /\ Found(1).kind = "dir"
    /\ runs = 2

\* the environment found at the requested path is stale for the call of p
Stale(p) == Found(p).kind = "dir" /\ GetVenvFingerprint(Found(p)) # Some(fp[p])

\* C2: a stale environment (stored fingerprint differs from fp, or none stored)
\* is never returned as it was: an environment returned by the call was created
\* in this call and its stored fingerprint equals fp.
C2_Staleness ==
    (Complete(1) /\ Stale(1) /\ ret[1].tag = "path")
        => /\ "reuse" \notin did[1]
           /\ {"create_ok", "stamp"} \subseteq did[1]
           /\ GetVenvFingerprint(fs[ret[1].name]) = Some(fp[1])

\* a stale environment was removed and rebuilt under the requested name
C2_Witness ==
    /\ Complete(1)
    /\ Stale(1)
    /\ Found(1).stamp.present
    /\ ret[1] = Env(Requested)
    /\ "rmtree" \in did[1]

\* the lock check of the call said locked and the unlock repair succeeded
Repaired(p) == Complete(p) /\ {"locked", "unlock_ok"} \subseteq did[p]

\* C5 as stated: locked and stale-lock files removable => setup_venv returns an
\* environment, and it has the requested name.
C5_Original == (Repaired(1) /\ pc[1] = "returned") => ret[1] = Env(Requested)

\* C5 amended: locked and unlock repair succeeded => the call does not fall back
\* at the unlock step: it goes on to the owner check under the requested name,
\* and it returns the environment of the requested name unless a forced removal
\* failed (fallback name), the creation command failed (no environment) or the
\* validity probe raised.
C5_LockRepairable ==
    Repaired(1)
        => /\ "owner_check" \in did[1]
           /\ "unlock_failed" \notin did[1]
           /\ \/ ret[1] = Env(Requested)
              \/ "remove_failed" \in did[1] /\ ret[1].name # Requested
              \/ "create_failed" \in did[1] /\ ret[1] = NoEnv
              \/ "uncaught" \in did[1] /\ ret[1] = Raised

\* a held sentinel lock was repaired and the environment of the requested name returned
C5_Witness ==
    /\ Repaired(1)
    /\ "flock_failed" \in did[1]
    /\ ret[1] = Env(Requested)

\* the unlock repair of the call failed
Blocked(p) == Complete(p) /\ "unlock_failed" \in did[p]

\* C6 as stated: locked and unlock blocked => setup_venv returns an environment
\* named <requested>_<timestamp>.
C6_Original ==
    Blocked(1) => ret[1].tag = "path" /\ ret[1].name \in Names \ {Requested}

\* the step of p in which _force_unlock_venv fails and setup_venv falls back
UnlockFails(p) == pc[p] = "unlock_unlink" /\ pc'[p] = "create"

\* C6 amended: locked and the sentinel cannot be deleted => the call makes no
\* owner check, validity check or removal, invokes creation only under the
\* requested name followed by the timestamp current at that moment, and returns
\* that environment when the creation command succeeds (none when it fails).
C6_LockBlocked ==
    /\ [](Blocked(1)
            => /\ target[1] \in Names \ {Requested}
               /\ did[1] \cap {"owner_check", "valid_check", "rmtree", "create_orig"} = {}
               /\ \/ ret[1] = Env(target[1]) /\ "create_ok" \in did[1]
                  \/ ret[1] = NoEnv /\ "create_failed" \in did[1])
    /\ [][UnlockFails(1) => target'[1] = FallbackName(Requested, clock)]_vars

\* the unlock repair was blocked and the timestamp-suffixed environment returned
C6_Witness ==
    /\ Blocked(1)
    /\ ret[1] = Env(FallbackName(Requested, clock))
    /\ clock = MaxClock

\* C7 as stated: whenever setup_venv falls back, the fallback name denotes a path
\* that did not exist before the call, and it never rebuilds under the original
\* name afterwards.
C7_Original ==
    \A p \in Procs :
        "fallback" \in did[p]
            => /\ target[p] # Requested
               /\ pre[p][target[p]].kind = "absent"
               /\ "create_orig" \notin did[p]

NoChecks == {"lock_check", "owner_check", "valid_check", "rmtree", "chmod",
             "remove_ok", "remove_failed", "create_fallback", "fallback"}

\* C8 as stated: nothing, or something that is not a directory, at the requested
\* path => no lock, owner or validity check, no removal, creation under the
\* original name.
C8_Original ==
    (Complete(1) /\ Found(1).kind # "dir")
        => did[1] \cap NoChecks = {} /\ "create_orig" \in did[1]

\* C8 amended: when nothing exists at the requested path, setup_venv performs no
\* lock check, owner check, validity check or removal and goes directly to
\* creation under the original name.
C8_AbsentCreates ==
    /\ (Found(1).kind = "absent" /\ runs > 0 /\ pc[1] # "exists")
          => did[1] \cap NoChecks = {} /\ target[1] = Requested
    /\ (Complete(1) /\ Found(1).kind = "absent")
          => "create_orig" \in did[1] /\ ret[1] \in {Env(Requested), NoEnv}

\* the path was absent and the environment was created under the original name
C8_Witness ==
    /\ Complete(1)
    /\ Found(1).kind = "absent"
    /\ ret[1] = Env(Requested)
    /\ fs[Requested].stamp = WriteText(fp[1])

\* the three sub-checks of _is_venv_valid on the environment found by the call
SubChecksPass(p) ==
    /\ GetVenvFingerprint(Found(p)) = Some(fp[p])
    /\ Found(p).exe \notin {"nopython", "nopip"}
    /\ Found(p).exe = "ok"

\* C9 as stated: an environment owned by the current user that reaches the
\* validity check is reused iff all three sub-checks pass; a failed sub-check
\* leads to forced removal, never to reuse and never to an uncaught error.
C9_Original ==
    (Complete(1) /\ Found(1).kind = "dir" /\ Found(1).owner = "me"
       /\ "valid_check" \in did[1])
        => /\ SubChecksPass(1) <=> "reuse" \in did[1]
           /\ ~SubChecksPass(1) => "rmtree" \in did[1] /\ ret[1] # Raised

\* the call found an environment owned by another user
Foreign(p) == Complete(p) /\ Found(p).kind = "dir" /\ Found(p).owner = "other"

\* C10 as stated: owner differs => never reuse; forced removal is attempted, a
\* successful removal is followed by a rebuild under the original name, a
\* failed one by the fallback name.
C10_Original ==
    Foreign(1)
        => /\ "reuse" \notin did[1]
           /\ "rmtree" \in did[1]
           /\ "remove_ok" \in did[1] => "create_orig" \in did[1]
           /\ "remove_failed" \in did[1] => "create_fallback" \in did[1]

\* C10 amended: owner differs => never reuse, even when the fingerprint matches;
\* unless the call already fell back at the unlock step, it attempts forced
\* removal, rebuilds under the original name when the removal succeeds and
\* falls back to the timestamp-suffixed name when it fails.
C10_ForeignOwner ==
    Foreign(1)
        => /\ "reuse" \notin did[1]
           /\ "create" \in did[1]
           /\ \/ "unlock_failed" \in did[1] /\ "create_fallback" \in did[1]
              \/ /\ {"foreign", "rmtree"} \subseteq did[1]
                 /\ "remove_ok" \in did[1] => "create_orig" \in did[1]
                 /\ "remove_failed" \in did[1] => "create_fallback" \in did[1]
                 /\ {"remove_ok", "remove_failed"} \cap did[1] # {}

\* a valid environment with the matching fingerprint, owned by another user,
\* was removed and rebuilt
C10_Witness ==
    /\ Foreign(1)
    /\ GetVenvFingerprint(Found(1)) = Some(fp[1])
    /\ Found(1).exe = "ok"
    /\ "remove_ok" \in did[1]
    /\ ret[1] = Env(Requested)

\* process q holds an environment that setup_venv returned to it and has not
\* finished its install and script run in it
InUse(q) == pc[q] = "returned" /\ ret[q].tag = "path" /\ status[q] = -1

\* the parts of an environment root that a removal, a creation or a stamp changes
Substance(d) == <<d.kind, d.owner, d.stamp, d.exe>>

\* process p runs the creation command at path n in this step
Creates(p, n) == pc[p] = "create" /\ pc'[p] # "create" /\ target[p] = n

\* C3 as stated: while a process is using the environment it got from
\* setup_venv, no other process removes, recreates or re-stamps that directory.
C3_Original ==
    [][\A q \in Procs :
         (InUse(q) /\ InUse(q)')
            => /\ Substance(fs'[ret[q].name]) = Substance(fs[ret[q].name])
               /\ \A p \in Procs \ {q} : ~Creates(p, ret[q].name)]_vars

\* C4 as stated: at most one repair install and one retry per invocation; a
\* failed retry is terminal whatever the operator answers.
C4_Original == \A p \in Procs : fixes[p] <= 1 /\ retries[p] <= 1

\* C11: when the environment-creation command fails, under the original name or
\* under a fallback name, setup_venv has returned no environment and has
\* attempted nothing further: no creation under another name, no retry.
C11_CreationFailure ==
    "create_failed" \in did[1]
        => /\ pc[1] = "returned"
           /\ ret[1] = NoEnv
           /\ "create_ok" \notin did[1]
           /\ ~({"create_orig", "create_fallback"} \subseteq did[1])

\* the creation under a fallback name failed and the call returned nothing
C11_Witness ==
    /\ "create_failed" \in did[1]
    /\ "create_fallback" \in did[1]
    /\ "remove_failed" \in did[1]
    /\ ret[1] = NoEnv

\* C12 as stated: setup_venv ends without an environment (returns none or
\* raises) only if the environment-creation command failed.
C12_Original ==
    (Complete(1) /\ ret[1].tag # "path") => "create_failed" \in did[1]

\* the call is inside setup_venv
Running(p) == pc[p] \notin {"idle", "returned", "crashed", "done"}

\* C13: setup_venv never waits on another process's lock: the lock attempt is
\* a step the call can always take, whoever holds the lock, and a call that
\* has started ends, also when a foreign process holds the sentinel lock for
\* ever.
C13_NeverWaits ==
    /\ [](pc[1] = "lock_flock" => ENABLED LockFlock(1))
    /\ [](Running(1) => <>Complete(1))

\* a call ended although a foreign process still holds the lock it met
C13_Witness ==
    /\ Complete(1)
    /\ "flock_failed" \in did[1]
    /\ \E i \in Inodes : flk[i] = Ext

\* what install_dependencies and _fix_missing_dependencies leave in the record
InstallEvents ==
    {"no_manifest", "upgrade_ok", "upgrade_failed", "install_unexpected", "bulk",
     "bulk_ok", "bulk_failed", "bulk_timeout", "install_timeout", "each_done",
     "some_failed", "each_aborted", "lines_skipped", "fix"}

\* C14 as stated: when setup_venv yields no environment, run_script does not
\* abort, runs the script directly with the host interpreter and installs
\* nothing.
C14_Original ==
    (pc[1] = "done" /\ ret[1] = NoEnv)
        => /\ "ran_direct" \in did[1]
           /\ did[1] \cap InstallEvents = {}
           /\ status[1] = 0

\* C14 amended: when setup_venv yields no environment, run_script does not
\* abort and installs nothing; it hands the script to the direct runner, which
\* runs it with the host interpreter, except that a script needing elevated
\* privileges is not started when port 80 is in use.
C14_DirectRun ==
    (ret[1] = NoEnv /\ pc[1] # "returned")
        => /\ pc[1] \in {"direct", "done"}
           /\ did[1] \cap InstallEvents = {}
           /\ fixes[1] = 0
           /\ "ran" \notin did[1]
           /\ pc[1] = "done"
                => /\ status[1] = 0
                   /\ \/ "ran_direct" \in did[1]
                      \/ script[1].sudo /\ "port_conflict" \in did[1]

\* no environment was returned and the script was run with the host interpreter
C14_Witness ==
    /\ pc[1] = "done"
    /\ ret[1] = NoEnv
    /\ "ran_direct" \in did[1]
    /\ status[1] = 0

\* the invocation of p has ended
Ended(p) == pc[p] \in {"done", "aborted"}

\* C15 as stated: once setup_venv has returned an environment, the script is
\* executed in it whatever install_dependencies did.
C15_Original ==
    (Ended(1) /\ ret[1].tag = "path") => "ran" \in did[1]

\* C16 as stated: when a manifest exists, install_dependencies always proceeds
\* to the bulk install after the self-upgrade step, whether the self-upgrade
\* succeeded or failed.
C16_Original ==
    (ret[1].tag = "path" /\ manifest.exists
       /\ pc[1] \in {"each", "run", "handle", "prompt", "fix", "done", "aborted"})
        => "bulk" \in did[1]

\* C17 as stated: after a non-zero bulk install every manifest line gets its
\* individual install; a failed line (non-zero exit or per-item timeout) never
\* prevents the remaining lines from being attempted.
C17_Original ==
    ("bulk_failed" \in did[1] /\ pc[1] # "each") => "lines_skipped" \notin did[1]

\* C18: a bulk timeout and a bulk non-zero exit are distinct outcomes: the
\* non-zero exit is reported as a failed bulk install and enters the per-package
\* pass; the timeout is reported as a timeout and does not enter it.
C18_TimeoutDistinct ==
    /\ "bulk_timeout" \in did[1]
          => /\ "install_timeout" \in did[1]
             /\ did[1] \cap {"bulk_failed", "bulk_ok", "each_done", "each_aborted",
                              "some_failed"} = {}
             /\ pc[1] # "each"
             /\ idx[1] = 0
    /\ "bulk_failed" \in did[1]
          => /\ did[1] \cap {"bulk_timeout", "bulk_ok"} = {}
             /\ pc[1] = "each" \/ did[1] \cap {"each_done", "each_aborted"} # {}

\* the bulk install timed out and the script was run without a per-package pass
C18_Witness ==
    /\ "bulk_timeout" \in did[1]
    /\ "ran" \in did[1]
    /\ pc[1] = "done"

\* the handler of p looks at a captured error without the missing-module pattern
OtherFailure(p) == pc[p] = "handle" /\ stderr[p].captured /\ ~stderr[p].missing

\* C19: a non-zero exit whose captured standard-error does not contain the
\* missing-module pattern triggers no package install and no retry: the
\* invocation ends there with exit status 1.
C19_NoRetry ==
    [][OtherFailure(1)
         => /\ pc'[1] = "done"
            /\ status'[1] = 1
            /\ fixes' = fixes
            /\ retries' = retries
            /\ did' = did]_vars

\* the first run failed for another reason and the invocation ended unrepaired
C19_Witness ==
    /\ pc[1] = "done"
    /\ stderr[1] = [captured |-> TRUE, missing |-> FALSE]
    /\ "failed" \in did[1]
    /\ status[1] = 1
    /\ fixes[1] = 0

\* the text holds package lines in strictly ascending order, each ended by a
\* newline: sorted and free of duplicates
SortedNoDuplicates(t) ==
    /\ Len(t) % 2 = 0
    /\ \A i \in 1..Len(t) : (i % 2 = 0) => t[i] = "\n"
    /\ \A i, j \in 1..Len(t) : (i % 2 = 1 /\ j % 2 = 1 /\ i < j) => Less(t[i], t[j])

Calls == 1..Len(outputs)

PackagesOf(t) == {t[i] : i \in {k \in 1..Len(t) : k % 2 = 1}}

\* the imports that are neither local nor standard library
External(imps) == imps \ {"db_utils", "os"}

\* the import set {requests, os, db_utils}
ScenarioA == {"requests", "os", "db_utils"}

\* C21 as stated: a local or standard-library import contributes nothing, every
\* other import contributes its mapped package(s) or its own name, and the
\* import set {requests, os, db_utils} yields exactly [requests].
C21_Original ==
    \A i \in Calls :
        outputs[i].result
            => /\ PackagesOf(outputs[i].text) \cap {"db_utils", "os"} = {}
               /\ \A imp \in External(source.imports) :
                     DependencyMap(imp) \subseteq PackagesOf(outputs[i].text)
               /\ source.imports = ScenarioA => outputs[i].text = <<"requests", "\n">>

\* C21 amended: a local or standard-library import contributes nothing and
\* every other import contributes its mapped package(s) or its own name; what
\* else the manifest holds comes from the coupling rule, the Streamlit rule
\* and the development packages of r3.py.  The import set {requests, os,
\* db_utils} yields exactly [requests] when no line of the script imports
\* streamlit and the operator of r3.py declines the development packages.
C21_Contributions ==
    \A i \in Calls :
        /\ outputs[i].result
            => /\ PackagesOf(outputs[i].text) \cap {"db_utils", "os"} = {}
               /\ \A imp \in External(source.imports) :
                     DependencyMap(imp) \subseteq PackagesOf(outputs[i].text)
               /\ PackagesOf(outputs[i].text)
                     \subseteq UNION {DependencyMap(imp) : imp \in External(source.imports)}
                               \cup {"python-dotenv", "streamlit"} \cup DevDependencies
        /\ (source.imports = ScenarioA /\ ~source.streamlit_line /\ ~outputs[i].answer)
            => outputs[i].result /\ outputs[i].text = <<"requests", "\n">>

\* the script imports requests, os and db_utils and the manifest is [requests]
C21_Witness ==
    /\ Len(outputs) > 0
    /\ source.imports = ScenarioA
    /\ outputs[1].result
    /\ outputs[1].text = <<"requests", "\n">>
    /\ version = "r3"

\* C22 as stated: an import set that contains psycopg2 or dotenv yields a
\* manifest that contains python-dotenv; the import set {psycopg2} yields
\* exactly [psycopg2-binary, python-dotenv].
C22_Original ==
    \A i \in Calls :
        /\ source.imports \cap {"psycopg2", "dotenv"} # {}
            => outputs[i].result /\ "python-dotenv" \in PackagesOf(outputs[i].text)
        /\ source.imports = {"psycopg2"}
            => outputs[i].text = <<"psycopg2-binary", "\n", "python-dotenv", "\n">>

\* C22 amended: an import set that contains psycopg2 or dotenv yields a
\* manifest that contains python-dotenv, also when dotenv is not imported; the
\* import set {psycopg2} yields exactly [psycopg2-binary, python-dotenv] when no
\* line of the script imports streamlit (and, in r3.py, the operator declines
\* the development packages).
C22_ForcedCoupling ==
    \A i \in Calls :
        /\ source.imports \cap {"psycopg2", "dotenv"} # {}
            => outputs[i].result /\ "python-dotenv" \in PackagesOf(outputs[i].text)
        /\ (source.imports = {"psycopg2"} /\ ~source.streamlit_line /\ ~outputs[i].answer)
            => outputs[i].text = <<"psycopg2-binary", "\n", "python-dotenv", "\n">>

\* psycopg2 alone was imported and python-dotenv is in the manifest
C22_Witness ==
    /\ Len(outputs) > 0
    /\ source.imports = {"psycopg2"}
    /\ outputs[1].text = <<"psycopg2-binary", "\n", "python-dotenv", "\n">>
    /\ version = "r2"

\* C23 as stated: when the resolved package set is empty, generate_requirements
\* reports 'no external dependencies' and no requirements.txt exists after the
\* call, also when an earlier pass had written one.
C23_Original ==
    \A i \in Calls : ~outputs[i].result => ~outputs[i].exists

\* the fingerprint calls that follow another one
Later == 2..Len(prints)

\* C24 as stated: changing, inserting or deleting bytes of a source file or of
\* the manifest, or adding, removing or renaming a source file, changes the
\* fingerprint.
C24_Original ==
    \A j \in Later :
        prints[j].edit \in {"content", "manifest", "add", "remove", "rename"}
            => prints[j].digest # prints[j - 1].digest

\* the files whose presence or bytes differ between two fingerprint calls
Differing(a, b) ==
    {n \in PyNames : \/ a.files[n].present # b.files[n].present
                     \/ a.files[n].content # b.files[n].content}

\* C24 amended: changing, inserting or deleting bytes of a readable source
\* file or of the manifest changes the fingerprint, and so does adding or
\* removing a readable source file that is not empty; a new modification time
\* alone does not.  (Renaming a file, adding or removing an empty file or an
\* empty manifest, and edits to a file that cannot be read may leave it as it
\* was.)
C24_Sensitivity ==
    \A j \in Later :
        LET a == prints[j - 1]
            b == prints[j]
        IN /\ (b.edit = "content" /\ \A n \in Differing(a, b) : b.files[n].readable)
                => b.digest # a.digest
           /\ (b.edit = "manifest" /\ a.manifest.content # b.manifest.content)
                => b.digest # a.digest
           /\ (b.edit = "add"
                 /\ \A n \in Differing(a, b) : b.files[n].readable /\ b.files[n].content # << >>)
                => b.digest # a.digest
           /\ (b.edit = "remove"
                 /\ \A n \in Differing(a, b) : a.files[n].readable /\ a.files[n].content # << >>)
                => b.digest # a.digest
           /\ b.edit = "touch" => b.digest = a.digest

\* a byte of the manifest was changed and the fingerprint changed
C24_Witness ==
    /\ Len(prints) = 2
    /\ prints[2].edit = "manifest"
    /\ prints[1].manifest.present /\ prints[2].manifest.present
    /\ Len(prints[1].manifest.content) = Len(prints[2].manifest.content)
    /\ prints[2].digest # prints[1].digest
    /\ \E n \in PyNames : prints[2].files[n].content # << >>

\* two fingerprint calls saw byte-identical sets of source files and manifest
\* (the same names with the same bytes, readable in both or in neither)
SameFiles(a, b) ==
    /\ \A n \in PyNames :
          /\ a.files[n].present = b.files[n].present
          /\ a.files[n].content = b.files[n].content
          /\ a.files[n].readable = b.files[n].readable
    /\ a.manifest.present = b.manifest.present
    /\ a.manifest.content = b.manifest.content

\* C25: byte-identical sets of (source files, manifest) get equal
\* fingerprints, whatever the order in which the directory listing enumerates
\* the files and whatever the modification times.
C25_Determinism ==
    \A i, j \in 1..Len(prints) :
        SameFiles(prints[i], prints[j]) => prints[i].digest = prints[j].digest

\* the same files, listed in another order and one of them with a new
\* modification time, got the same fingerprint
C25_Witness ==
    /\ Len(prints) = 2
    /\ SameFiles(prints[1], prints[2])
    /\ prints[2].edit = "touch"
    /\ prints[1].listing # prints[2].listing
    /\ prints[1].digest = prints[2].digest
    /\ \E n, m \in PyNames :
          /\ prints[1].files[n].readable /\ prints[1].files[m].readable
          /\ prints[1].files[n].content # << >>
          /\ prints[1].files[m].content # << >>
          /\ prints[1].files[n].content # prints[1].files[m].content

\* C26 as stated: for every source text extract_imports returns a set of names
\* and never raises, so the step that called it continues.
C26_Original == scan.state # "raised"

\* the destructive repair steps of a call that failed
FailedRepairs(p) == did[p] \cap {"unlock_failed", "remove_failed"}

\* C27: setup_venv returns an environment under another name than the
\* requested one only if a force-unlock or force-remove of that call failed;
\* when every destructive step that was needed succeeded and the creation
\* succeeded, the environment returned has the original name.
C27_FallbackOnlyAfterFailure ==
    \A p \in Procs :
        /\ (ret[p].tag = "path" /\ ret[p].name # Requested) => FailedRepairs(p) # {}
        /\ (pc[p] = "returned" /\ "create_ok" \in did[p] /\ FailedRepairs(p) = {})
             => ret[p] = Env(Requested)

\* an environment that was not valid was removed, and the new one has the
\* original name
C27_Witness ==
    /\ pc[1] = "returned"
    /\ {"invalid", "rmtree", "remove_ok", "create_ok"} \subseteq did[1]
    /\ ret[1] = Env(Requested)

\* the first shutil.rmtree of the call succeeds on the directory it found
FirstAttemptSucceeds(d) == d.kind = "dir" /\ d.rm = "ok"

\* the first shutil.rmtree of the call raises PermissionError
FirstAttemptDenied(d) == d.kind = "dir" /\ d.rm \in {"permfix", "permblocked"}

\* C28: _force_remove_venv makes at most two recursive-delete attempts, the
\* second only after the first raised a permission error and the files were
\* made writable; any other first-attempt error, or a failing second attempt,
\* ends the step as failed, and setup_venv then creates under the alternate
\* name instead of failing.
C28_OneRetry ==
    \A p \in Procs :
        LET d == pre[p][Requested] IN
        /\ "rmtree_retry" \in did[p]
             => {"rmtree", "chmod"} \subseteq did[p] /\ FirstAttemptDenied(d)
        /\ ("rmtree" \in did[p] /\ ~FirstAttemptSucceeds(d) /\ ~FirstAttemptDenied(d))
             => "rmtree_retry" \notin did[p] /\ "remove_failed" \in did[p]
        /\ ("rmtree_retry" \in did[p] /\ d.rm = "permblocked")
             => "remove_failed" \in did[p]
        /\ "remove_failed" \in did[p]
             => /\ "create_orig" \notin did[p]
                /\ target[p] # Requested
                /\ pc[p] \in {"create", "returned"}
                /\ pc[p] = "returned"
                     => "create_fallback" \in did[p] /\ ret[p] \in {NoEnv, Env(target[p])}

\* the second attempt failed too and the environment was created under the
\* alternate name
C28_Witness ==
    /\ pc[1] = "returned"
    /\ {"rmtree", "chmod", "rmtree_retry", "remove_failed", "create_ok"} \subseteq did[1]
    /\ ret[1] = Env(target[1])
    /\ target[1] # Requested

\* C29 as stated: when _force_unlock_venv reports success, neither the
\* sentinel lock file nor any file matching the lock/pid patterns remains in
\* the environment root (a file that cannot be deleted makes the repair fail).
C29_Original ==
    \A p \in Procs :
        (pc[p] = "owner" /\ "unlock_ok" \in did[p])
            => fs[Requested].lock = 0 /\ ~fs[Requested].extra

\* a step that writes .project_fingerprint is a creation step that succeeded,
\* and it writes the fingerprint of the call
StampStep ==
    \A n \in Names :
        (fs'[n].stamp # fs[n].stamp /\ fs'[n].stamp.present)
            => \E p \in Procs :
                 /\ pc[p] = "create" /\ target[p] = n
                 /\ "create_ok" \in did'[p]
                 /\ fs'[n].stamp = WriteText(fp[p])

\* C30 as stated: .project_fingerprint is written only after a successful
\* creation command, and a call that reuses the environment leaves it as it
\* found it: stamp not rewritten, nothing removed or recreated.
C30_Original ==
    /\ [][StampStep]_vars
    /\ [](\A p \in Procs : "reuse" \in did[p] => fs = pre[p])

\* C30 amended: .project_fingerprint is written only after a successful
\* creation command, and a call that reuses the environment neither rewrites
\* the stamp nor removes or recreates the environment; the only files it may
\* delete are the sentinel lock file and stale lock/pid files in its root.
C30_StampOnlyAtCreation ==
    /\ [][StampStep]_vars
    /\ [](\A p \in Procs :
            "reuse" \in did[p]
                => /\ Substance(fs[Requested]) = Substance(pre[p][Requested])
                   /\ \A n \in Names \ {Requested} : fs[n] = pre[p][n]
                   /\ did[p] \cap {"rmtree", "remove_ok", "remove_failed",
                                    "create", "stamp"} = {})

\* an environment whose stamp ends with a newline was reused, after an unlock
\* repair, with the stamp as it was
C30_Witness ==
    /\ pc[1] = "returned"
    /\ {"unlock_ok", "reuse"} \subseteq did[1]
    /\ fs[Requested].stamp.nl
    /\ fs[Requested].stamp = pre[1][Requested].stamp

\* the positions of install_dependencies
InstallPcs == {"install", "pip_upgrade", "bulk", "each"}

\* the positions of the run in the environment and of its error handler
RunPcs == {"run", "handle", "prompt", "fix"}

\* C31: in every invocation for a script with external dependencies the
\* manifest is written, then the fingerprint is computed (over the new
\* manifest), then setup_venv is consulted, then the dependencies are
\* installed, then the script is run; the fingerprint is computed anew in
\* every invocation.
C31_PipelineOrder ==
    /\ Len(prints) <= Len(outputs) /\ Len(outputs) <= Len(prints) + 1
    /\ runs <= Len(prints) /\ Len(prints) <= runs + 1
    /\ Len(outputs) > runs => (scan.state = "returned" /\ scan.external /\ pc[1] = "idle")
    /\ \A i \in 1..Len(prints) :
          /\ outputs[i].result
          /\ prints[i].manifest.present
          /\ prints[i].manifest.content = outputs[i].text
          /\ prints[i].digest =
                ProjectFingerprint([files |-> prints[i].files,
                                    manifest |-> prints[i].manifest], prints[i].listing)
    /\ pc[1] \in InstallPcs
          => runs = Len(prints) /\ ret[1].tag = "path" /\ "ran" \notin did[1]
    /\ (pc[1] \in RunPcs \/ "ran" \in did[1])
          => runs = Len(prints) /\ ret[1].tag = "path" /\ did[1] \cap InstallEvents # {}

\* a second invocation, after an edit to a script, computed another
\* fingerprint over the manifest it had just written, and ran the script in
\* the environment
C31_Witness ==
    /\ runs = 2 /\ Len(prints) = 2 /\ Len(outputs) = 2
    /\ prints[1].digest # prints[2].digest
    /\ pc[1] = "done"
    /\ "ran" \in did[1]
    /\ did[1] \cap {"bulk_ok", "each_done"} # {}

\* C32 as stated: for every module name, the package _fix_missing_dependencies
\* installs is the package generate_requirements maps that import name to (its
\* own name when unmapped).
C32_Original ==
    \A i \in 1..Len(repairs) : DependencyMap(repairs[i].module) = {repairs[i].package}

\* C33: after a setup_venv call that ran without a concurrent setup_venv
\* returns an environment, no .lock file exists inside that environment,
\* whichever path (reuse, repair, rebuild, fallback) the call took.
C33_SentinelTransient ==
    \A p \in Procs :
        (pc[p] = "returned" /\ ret[p].tag = "path")
            => fs[ret[p].name].kind = "dir" /\ fs[ret[p].name].lock = 0

\* an environment that held a sentinel file before the call was reused, and
\* the sentinel is gone
C33_Witness ==
    /\ pc[1] = "returned"
    /\ "reuse" \in did[1]
    /\ ret[1] = Env(Requested)
    /\ pre[1][Requested].lock # 0
    /\ fs[Requested].lock = 0

\* C34 as stated: every installer invocation of install_dependencies
\* (self-upgrade, bulk install, per-package install) is bounded by a timeout,
\* so install_dependencies is never left waiting for an installer subprocess
\* that does not exit.
C34_Original ==
    \A p \in Procs : pc[p] # "upgrade_wait"

\* C35: whenever setup_venv returns an environment, on the reuse, rebuild and
\* fallback paths alike, the fingerprint read from .project_fingerprint of
\* the returned environment equals the fingerprint passed to the call.
C35_StampPostcondition ==
    \A p \in Procs :
        (pc[p] = "returned" /\ ret[p].tag = "path")
            => GetVenvFingerprint(fs[ret[p].name]) = [some |-> TRUE, val |-> fp[p]]

\* a second call, with another fingerprint, fell back to a name under which
\* an environment existed, and the environment it returned carries the
\* fingerprint of that call
C35_Witness ==
    /\ pc[1] = "returned"
    /\ runs = 2
    /\ ret[1].tag = "path" /\ ret[1].name # Requested
    /\ pre[1][ret[1].name].stamp.present
    /\ pre[1][ret[1].name].stamp # fs[ret[1].name].stamp
    /\ fs[ret[1].name].stamp = WriteText(fp[1])

\* both processes have called setup_venv with the same fingerprint, and each
\* found an environment that is valid for it
BothOnValid ==
    \A q \in Procs :
        /\ pc[q] # "idle"
        /\ fp[q] = fp[1]
        /\ IsVenvValid(pre[q][Requested], fp[q]) = "valid"

\* C36 as stated: two processes that run setup_venv concurrently for the same
\* name and fingerprint on an existing valid environment of their own user
\* both return the original environment path, and neither removes, recreates
\* or renames the environment, in every interleaving.
C36_Original ==
    \A p \in Procs :
        (BothOnValid /\ pc[p] \in {"returned", "done"})
            => /\ ret[p] = Env(Requested)
               /\ did[p] \cap {"rmtree", "remove_ok", "remove_failed", "create",
                                "fallback"} = {}

\* C37 as stated: an environment created under a timestamp-suffixed name is
\* never returned by a later invocation, and no invocation removes such an
\* environment: each invocation that falls back leaves one more sibling.
C37_Original ==
    \A p \in Procs :
        /\ (pc[p] = "returned" /\ ret[p].tag = "path" /\ ret[p].name # Requested)
              => last.ret # ret[p]
        /\ \A n \in Names \ {Requested} :
              PathExists(pre[p][n]) => PathExists(fs[n])

\* the operator declines the repair in this step
Declines(p) == pc[p] = "prompt" /\ pc'[p] = "done"

\* C38: whenever a run in the environment reaches _handle_script_error, the
\* tool process ends with exit status 1, also when the operator confirmed the
\* repair and the retried run succeeded, and also when the operator declined
\* the repair, in which case no install and no retry happen.
C38_HandlerExitsOne ==
    /\ [](\A p \in Procs :
            (pc[p] \in {"done", "aborted"} /\ "failed" \in did[p]) => status[p] = 1)
    /\ [][\A p \in Procs :
            Declines(p) => /\ status'[p] = 1
                           /\ fixes'[p] = fixes[p] /\ retries'[p] = retries[p]
                           /\ did'[p] = did[p]]_vars

\* the run failed, the operator confirmed the repair, the script was run
\* again, and the tool ended with status 1
C38_Witness ==
    /\ pc[1] = "done"
    /\ {"failed", "fix", "retry", "ran"} \subseteq did[1]
    /\ retries[1] = 1 /\ fixes[1] = 1
    /\ status[1] = 1

\* C39: the missing-module repair is attempted only for runs whose standard
\* error was captured: for an interactive script, a Streamlit app, a sudo run
\* and a direct run without an environment, a non-zero exit never triggers a
\* package install or a retry.
C39_RepairOnlyCaptured ==
    \A p \in Procs :
        (RunMode(script[p]) # "captured" \/ ret[p].tag # "path")
            => /\ fixes[p] = 0 /\ retries[p] = 0
               /\ did[p] \cap {"fix", "retry"} = {}
               /\ pc[p] \notin {"prompt", "fix"}

\* the run of an interactive script in the environment failed and the tool
\* ended without a repair
C39_Witness ==
    /\ pc[1] = "done"
    /\ RunMode(script[1]) = "interactive"
    /\ ret[1].tag = "path"
    /\ "failed" \in did[1]
    /\ fixes[1] = 0 /\ retries[1] = 0
    /\ status[1] = 1

====
